---- MODULE Spec2Model ----
(***************************************************************************)
(* Model of the admin dashboard back end: the survey response aggregator   *)
(* (server/storage.ts getSurveyAnalytics and the inline copy of the        *)
(* serverless handler api/index.ts), the Express router that fronts the    *)
(* storage layer, and the serverless handlers.                             *)
(*                                                                         *)
(* Strings are sequences of one-character strings, so that split, trim,    *)
(* toString and the key order of a JavaScript object are computed rather   *)
(* than assumed.                                                           *)
(***************************************************************************)
EXTENDS Integers, Sequences, FiniteSets

VARIABLES surveys, surveyResponses, rewardItems, nextRewardItemId, res,
          businesses, events, nextId,
          routesRegistered, routePromise, registerCalls, invocations,
          localStorage, user, isLoading, now, memory

\* The businesses and events tables and the serial columns of the tables
\* that the create routes insert into.
crudVars == <<businesses, events, nextId>>

\* Module state of the Vercel wrapper and its invocations in flight.
wrapperVars == <<routesRegistered, routePromise, registerCalls, invocations>>

\* State of the browser client: the auth_token entry of localStorage, the
\* React state of AuthProvider and the clock, Date.now() / 1000.
clientVars == <<localStorage, user, isLoading, now>>

vars == <<surveys, surveyResponses, rewardItems, nextRewardItemId, res,
          crudVars, wrapperVars, clientVars, memory>>

(***************************************************************************)
(* Bounds of the model.                                                    *)
(***************************************************************************)
MaxResponses == 3
MaxTextRows == 12
MaxRewardItems == 2
MaxEntities == 2
MaxInvocations == 3
MaxClock == 3
MaxFeedRows == 6
\* MemoryStorage issues ids up to this one (the seed data takes 1 to 6).
MaxMemoryId == 8

(***************************************************************************)
(* JavaScript string and array primitives used by the aggregator.          *)
(***************************************************************************)
Digits == <<"0", "1", "2", "3", "4", "5", "6", "7", "8", "9">>

IsDigit(c) == \E i \in 1..10 : Digits[i] = c

DigitVal(c) == (CHOOSE i \in 1..10 : Digits[i] = c) - 1

IsSpace(c) == c = " "

RECURSIVE ToString(_)
\* Number.prototype.toString for a non-negative integer.
ToString(n) ==
    IF n < 10 THEN <<Digits[n + 1]>>
    ELSE ToString(n \div 10) \o <<Digits[(n % 10) + 1]>>

\* Order of two canonical decimal strings of the same length.
DigitsLeq(a, b) ==
    \/ a = b
    \/ \E i \in 1..Len(a) :
          /\ DigitVal(a[i]) < DigitVal(b[i])
          /\ \A j \in 1..(i - 1) : a[j] = b[j]

\* Numeric order of two canonical decimal strings.
NumLeq(a, b) ==
    \/ Len(a) < Len(b)
    \/ Len(a) = Len(b) /\ DigitsLeq(a, b)

\* 2^32 - 2, the largest array index.
MaxArrayIndex == <<"4", "2", "9", "4", "9", "6", "7", "2", "9", "4">>

\* A property key is an "array index" when it is the canonical decimal form
\* of an integer in 0 .. 2^32 - 2; such keys are enumerated first, in
\* ascending numeric order, by Object.entries.
IsArrayIndex(s) ==
    /\ Len(s) >= 1
    /\ \A i \in 1..Len(s) : IsDigit(s[i])
    /\ (Len(s) > 1 => s[1] # "0")
    /\ NumLeq(s, MaxArrayIndex)

RECURSIVE Split(_, _)
\* String.prototype.split(sep) for a one-character separator.
Split(s, sep) ==
    IF \A i \in 1..Len(s) : s[i] # sep THEN <<s>>
    ELSE LET k == CHOOSE i \in 1..Len(s) :
                     /\ s[i] = sep
                     /\ \A j \in 1..(i - 1) : s[j] # sep
         IN  <<SubSeq(s, 1, k - 1)>> \o Split(SubSeq(s, k + 1, Len(s)), sep)

RECURSIVE TrimStart(_)
TrimStart(s) ==
    IF s # <<>> /\ IsSpace(s[1]) THEN TrimStart(Tail(s)) ELSE s

RECURSIVE TrimEnd(_)
TrimEnd(s) ==
    IF s # <<>> /\ IsSpace(s[Len(s)]) THEN TrimEnd(SubSeq(s, 1, Len(s) - 1)) ELSE s

\* String.prototype.trim.
Trim(s) == TrimEnd(TrimStart(s))

RECURSIVE MapTrim(_)
MapTrim(ss) ==
    IF ss = <<>> THEN <<>> ELSE <<Trim(Head(ss))>> \o MapTrim(Tail(ss))

RECURSIVE FilterNonEmpty(_)
FilterNonEmpty(ss) ==
    IF ss = <<>> THEN <<>>
    ELSE (IF Head(ss) # <<>> THEN <<Head(ss)>> ELSE <<>>) \o FilterNonEmpty(Tail(ss))

\* Variant of SliceFirst that keeps the last n elements, slice(-n).
SliceFirst_Last(s, n) == SubSeq(s, IF Len(s) < n THEN 1 ELSE Len(s) - n + 1, Len(s))

\* Array.prototype.slice(0, n).
SliceFirst(s, n) == SubSeq(s, 1, IF Len(s) < n THEN Len(s) ELSE n)

RECURSIVE SelectSeq2(_, _)
\* Array.prototype.filter over records whose answer satisfies / fails
\* IsArrayIndex (flag = TRUE keeps the array-index keys).
SelectSeq2(es, flag) ==
    IF es = <<>> THEN <<>>
    ELSE (IF IsArrayIndex(Head(es).answer) = flag THEN <<Head(es)>> ELSE <<>>)
         \o SelectSeq2(Tail(es), flag)

RECURSIVE AscendingByIndex(_)
\* The array-index keys of an object in ascending numeric order.
AscendingByIndex(es) ==
    IF es = <<>> THEN <<>>
    ELSE LET m == CHOOSE i \in 1..Len(es) :
                     \A j \in 1..Len(es) : NumLeq(es[i].answer, es[j].answer)
             rest == [j \in 1..(Len(es) - 1) |-> IF j < m THEN es[j] ELSE es[j + 1]]
         IN  <<es[m]>> \o AscendingByIndex(rest)

\* Variant of ObjectEntries that enumerates every key in insertion order.
ObjectEntries_InsertionOrder(tally) == tally

\* Object.entries(answerCounts): own enumerable string keys in
\* OrdinaryOwnPropertyKeys order, i.e. array-index keys ascending, then the
\* remaining keys in insertion order.  tally is the object in insertion order.
ObjectEntries(tally) ==
    AscendingByIndex(SelectSeq2(tally, TRUE)) \o SelectSeq2(tally, FALSE)

\* Names that an object literal {} inherits from Object.prototype with a
\* function as value.
StrConstructor == <<"c", "o", "n", "s", "t", "r", "u", "c", "t", "o", "r">>
StrToString == <<"t", "o", "S", "t", "r", "i", "n", "g">>
StrValueOf == <<"v", "a", "l", "u", "e", "O", "f">>
StrProto == <<"_", "_", "p", "r", "o", "t", "o", "_", "_">>

InheritedFunctionNames == {StrConstructor, StrToString, StrValueOf}

\* A count is a number or, after + 1 on a function, a string.  The string
\* made of the source text of the function followed by n characters "1" is
\* written -n.
IsNumber(count) == count >= 0

\* function + 1
FunctionPlusOne == -1

\* count + 1: addition on a number, concatenation of "1" on a string.
PlusOne(count) == IF IsNumber(count) THEN count + 1 ELSE count - 1

\* Variant of InsertByCountDesc for the comparator a.count - b.count.
InsertByCountDesc_Ascending(sorted, e) ==
    LET k == Cardinality({i \in 1..Len(sorted) : sorted[i].count <= e.count})
    IN  SubSeq(sorted, 1, k) \o <<e>> \o SubSeq(sorted, k + 1, Len(sorted))

\* Position at which a stable descending sort places e in an already sorted
\* prefix: after every element whose count is >= e.count.  The comparator
\* b.count - a.count is NaN, which sort takes as 0, when a count is not a
\* number.
InsertByCountDesc(sorted, e) ==
    LET k == Cardinality({i \in 1..Len(sorted) :
                             ~(IsNumber(sorted[i].count) /\ IsNumber(e.count)
                               /\ sorted[i].count < e.count)})
    IN  SubSeq(sorted, 1, k) \o <<e>> \o SubSeq(sorted, k + 1, Len(sorted))

RECURSIVE SortByCountDesc(_)
\* entries.sort((a, b) => b.count - a.count); Array.prototype.sort is stable.
SortByCountDesc(es) ==
    IF es = <<>> THEN <<>>
    ELSE InsertByCountDesc(SortByCountDesc(SubSeq(es, 1, Len(es) - 1)), es[Len(es)])

RECURSIVE CountAnswers(_)
\* answerCounts[answer] = (answerCounts[answer] || 0) + 1 over allAnswers;
\* the result lists the own keys of answerCounts in insertion order.  For
\* an answer that names an inherited function the value read is that
\* function, and + 1 appends "1" to its source text; the assignment to
\* __proto__ of a string is ignored and creates no key.
CountAnswers(allAnswers) ==
    IF allAnswers = <<>> THEN <<>>
    ELSE LET prev == CountAnswers(SubSeq(allAnswers, 1, Len(allAnswers) - 1))
             a == allAnswers[Len(allAnswers)]
         IN  IF \E i \in 1..Len(prev) : prev[i].answer = a
             THEN [i \in 1..Len(prev) |->
                      IF prev[i].answer = a
                      THEN [answer |-> a, count |-> PlusOne(prev[i].count)]
                      ELSE prev[i]]
             ELSE IF a = StrProto THEN prev
             ELSE Append(prev, [answer |-> a,
                                count |-> IF a \in InheritedFunctionNames
                                          THEN FunctionPlusOne ELSE 1])

(***************************************************************************)
(* Stored data.                                                            *)
(*   survey.questions is a jsonb value: kind "array" is a JSON array,      *)
(*   "jsonArray" a JSON string holding an array, "jsonOther" a JSON string *)
(*   holding a non-array, "badJson" a JSON string that does not parse and  *)
(*   "other" any non-string non-array value.                               *)
(*   response.responses is a jsonb value: kind "object" is a JSON object,  *)
(*   "json" a JSON string holding an object, "badJson" a JSON string that  *)
(*   does not parse.  answers maps question keys to answer strings.        *)
(***************************************************************************)
Str1 == <<"1">>
Str2 == <<"2">>
StrA == <<"A">>
StrB == <<"B">>
Str3 == <<"3">>
Str5 == <<"5">>
StrAcommaB == <<"A", ",", " ", "B">>
StrMessy == <<" ", "B", ",", ",", "A", " ", ",", "A">>
StrEmpty == <<>>

QuestionPrefix == <<"Q", "u", "e", "s", "t", "i", "o", "n", " ">>

Question(text, type) == [text |-> text, type |-> type, options |-> <<>>]

QArray(list) == [kind |-> "array", list |-> list]

Payload(kind, answers) == [kind |-> kind, answers |-> answers]

Answers0 == [k \in {} |-> StrEmpty]

Answers1(a) == [k \in {Str1} |-> a]

AnswersAt2(b) == [k \in {Str2} |-> b]

Answers2(a, b) == [k \in {Str1, Str2} |-> IF k = Str1 THEN a ELSE b]

(***************************************************************************)
(* server/storage.ts: DatabaseStorage.                                     *)
(***************************************************************************)
TextLimit == 10

\* getSurvey: select ... where id = :id limit 1; result[0] is undefined when
\* no row matches.
SurveyExists(id) == id \in DOMAIN surveys

\* Variant of ResponsesOf that forgets the where clause.
ResponsesOf_AllRows(id) == surveyResponses

\* select ... from survey_responses where survey_id = :id, in table order.
ResponsesOf(id) == SelectSeq(surveyResponses, LAMBDA r : r.surveyId = id)

\* Lines 494-504: the questions list the aggregator iterates.  The value
\* "throws" stands for a parsed non-array, on which questions.map raises a
\* TypeError outside the inner try block.
ParseQuestions(q) ==
    CASE q.kind = "array" -> [ok |-> TRUE, list |-> q.list]
      [] q.kind = "jsonArray" -> [ok |-> TRUE, list |-> q.list]
      [] q.kind = "jsonOther" -> [ok |-> FALSE, list |-> <<>>]
      [] q.kind = "badJson" -> [ok |-> TRUE, list |-> <<>>]
      [] OTHER -> [ok |-> TRUE, list |-> <<>>]

\* question.type || 'text'
QuestionType(question) == IF question.type = "" THEN "text" ELSE question.type

\* question.text || question.question || `Question ${questionId}`
QuestionText(question, questionId) ==
    IF question.text = StrEmpty THEN QuestionPrefix \o questionId ELSE question.text

IsTextType(questionType) == questionType = "text" \/ questionType = "textarea"

\* Variant of RowAnswers that splits the answer for every question type.
RowAnswers_SplitAlways(response, questionId, questionType) ==
    IF response.responses.kind = "badJson"
    THEN [all |-> <<>>, text |-> <<>>]
    ELSE LET answersObj == response.responses.answers
         IN  IF questionId \in DOMAIN answersObj /\ answersObj[questionId] # StrEmpty
             THEN LET answer == answersObj[questionId]
                  IN  [all |-> FilterNonEmpty(MapTrim(Split(answer, ","))),
                       text |-> IF IsTextType(questionType) THEN <<answer>> ELSE <<>>]
             ELSE [all |-> <<>>, text |-> <<>>]

\* Variant of RowAnswers that keeps free-text answers out of the tally.
RowAnswers_TextNotTallied(response, questionId, questionType) ==
    IF response.responses.kind = "badJson"
    THEN [all |-> <<>>, text |-> <<>>]
    ELSE LET answersObj == response.responses.answers
         IN  IF questionId \in DOMAIN answersObj /\ answersObj[questionId] # StrEmpty
             THEN LET answer == answersObj[questionId]
                  IN  [all |-> IF questionType = "checkbox"
                               THEN FilterNonEmpty(MapTrim(Split(answer, ",")))
                               ELSE IF IsTextType(questionType) THEN <<>>
                               ELSE <<answer>>,
                       text |-> IF IsTextType(questionType) THEN <<answer>> ELSE <<>>]
             ELSE [all |-> <<>>, text |-> <<>>]

\* Variant of RowAnswers that pushes every token of a checkbox answer, the
\* empty ones too.
RowAnswers_KeepsEmptyTokens(response, questionId, questionType) ==
    IF response.responses.kind = "badJson"
    THEN [all |-> <<>>, text |-> <<>>]
    ELSE LET answersObj == response.responses.answers
         IN  IF questionId \in DOMAIN answersObj /\ answersObj[questionId] # StrEmpty
             THEN LET answer == answersObj[questionId]
                  IN  [all |-> IF questionType = "checkbox"
                               THEN MapTrim(Split(answer, ","))
                               ELSE <<answer>>,
                       text |-> IF IsTextType(questionType) THEN <<answer>> ELSE <<>>]
             ELSE [all |-> <<>>, text |-> <<>>]

\* Variant of RowAnswers that never splits a checkbox answer.
RowAnswers_NoSplit(response, questionId, questionType) ==
    IF response.responses.kind = "badJson"
    THEN [all |-> <<>>, text |-> <<>>]
    ELSE LET answersObj == response.responses.answers
         IN  IF questionId \in DOMAIN answersObj /\ answersObj[questionId] # StrEmpty
             THEN LET answer == answersObj[questionId]
                  IN  [all |-> <<answer>>,
                       text |-> IF IsTextType(questionType) THEN <<answer>> ELSE <<>>]
             ELSE [all |-> <<>>, text |-> <<>>]

\* Lines 522-549: what one response row adds to allAnswers and textResponses.
RowAnswers(response, questionId, questionType) ==
    IF response.responses.kind = "badJson"
    THEN [all |-> <<>>, text |-> <<>>]
    ELSE LET answersObj == response.responses.answers
         IN  IF questionId \in DOMAIN answersObj /\ answersObj[questionId] # StrEmpty
             THEN LET answer == answersObj[questionId]
                  IN  [all |-> IF questionType = "checkbox"
                               THEN FilterNonEmpty(MapTrim(Split(answer, ",")))
                               ELSE <<answer>>,
                       text |-> IF IsTextType(questionType) THEN <<answer>> ELSE <<>>]
             ELSE [all |-> <<>>, text |-> <<>>]

RECURSIVE CollectAnswers(_, _, _)
\* Lines 518-550: responses.forEach(...) filling allAnswers and textResponses.
CollectAnswers(responses, questionId, questionType) ==
    IF responses = <<>> THEN [all |-> <<>>, text |-> <<>>]
    ELSE LET prev == CollectAnswers(SubSeq(responses, 1, Len(responses) - 1),
                                    questionId, questionType)
             row == RowAnswers(responses[Len(responses)], questionId, questionType)
         IN  [all |-> prev.all \o row.all, text |-> prev.text \o row.text]

\* Variant of AnalyzeQuestion that keys the answers by the 0-based index.
AnalyzeQuestion_ZeroBased(question, index, responses) ==
    LET questionId == ToString(index)
        questionType == QuestionType(question)
        collected == CollectAnswers(responses, questionId, questionType)
    IN  [questionId |-> questionId,
         questionText |-> QuestionText(question, questionId),
         questionType |-> questionType,
         options |-> question.options,
         responses |-> SortByCountDesc(ObjectEntries(CountAnswers(collected.all))),
         hasTextResponses |-> IsTextType(questionType),
         textResponses |-> IF IsTextType(questionType)
                           THEN SliceFirst(collected.text, TextLimit)
                           ELSE <<>>]

\* Lines 509-574: the analytics entry of the question at 0-based index.
AnalyzeQuestion(question, index, responses) ==
    LET questionId == ToString(index + 1)
        questionType == QuestionType(question)
        collected == CollectAnswers(responses, questionId, questionType)
    IN  [questionId |-> questionId,
         questionText |-> QuestionText(question, questionId),
         questionType |-> questionType,
         options |-> question.options,
         responses |-> SortByCountDesc(ObjectEntries(CountAnswers(collected.all))),
         hasTextResponses |-> IsTextType(questionType),
         textResponses |-> IF IsTextType(questionType)
                           THEN SliceFirst(collected.text, TextLimit)
                           ELSE <<>>]

\* Lines 470-593.  outcome "throw" is the rejected promise; notFound tells
\* the Error for a missing survey from a TypeError raised while mapping.
GetSurveyAnalytics(surveyId) ==
    IF ~SurveyExists(surveyId)
    THEN [outcome |-> "throw", notFound |-> TRUE]
    ELSE LET survey == surveys[surveyId]
             responses == ResponsesOf(surveyId)
             questions == ParseQuestions(survey.questions)
         IN  IF ~questions.ok
             THEN [outcome |-> "throw", notFound |-> FALSE]
             ELSE [outcome |-> "return",
                   survey |-> survey,
                   totalResponses |-> Len(responses),
                   questionAnalytics |->
                       [i \in 1..Len(questions.list) |->
                           AnalyzeQuestion(questions.list[i], i - 1, responses)]]

(***************************************************************************)
(* api/index.ts: the inline aggregation of the serverless handler.         *)
(***************************************************************************)
\* Variant of HandlerRowAnswers that does not trim the pieces of a checkbox
\* answer.
HandlerRowAnswers_NoTrim(response, questionId, questionType) ==
    IF response.responses.kind = "badJson"
    THEN [all |-> <<>>, text |-> <<>>]
    ELSE LET answersObj == response.responses.answers
         IN  IF questionId \in DOMAIN answersObj /\ answersObj[questionId] # StrEmpty
             THEN LET answer == answersObj[questionId]
                  IN  [all |-> IF questionType = "checkbox"
                               THEN FilterNonEmpty(Split(answer, ","))
                               ELSE <<answer>>,
                       text |-> IF IsTextType(questionType) THEN <<answer>> ELSE <<>>]
             ELSE [all |-> <<>>, text |-> <<>>]

\* Lines 439-468.
HandlerRowAnswers(response, questionId, questionType) ==
    IF response.responses.kind = "badJson"
    THEN [all |-> <<>>, text |-> <<>>]
    ELSE LET answersObj == response.responses.answers
         IN  IF questionId \in DOMAIN answersObj /\ answersObj[questionId] # StrEmpty
             THEN LET answer == answersObj[questionId]
                  IN  [all |-> IF questionType = "checkbox"
                               THEN FilterNonEmpty(MapTrim(Split(answer, ",")))
                               ELSE <<answer>>,
                       text |-> IF IsTextType(questionType) THEN <<answer>> ELSE <<>>]
             ELSE [all |-> <<>>, text |-> <<>>]

RECURSIVE HandlerCollectAnswers(_, _, _)
\* Lines 436-468.
HandlerCollectAnswers(responses, questionId, questionType) ==
    IF responses = <<>> THEN [all |-> <<>>, text |-> <<>>]
    ELSE LET prev == HandlerCollectAnswers(SubSeq(responses, 1, Len(responses) - 1),
                                           questionId, questionType)
             row == HandlerRowAnswers(responses[Len(responses)], questionId, questionType)
         IN  [all |-> prev.all \o row.all, text |-> prev.text \o row.text]

\* Variant of HandlerAnalyzeQuestion that keys the answers by the 0-based
\* index.
HandlerAnalyzeQuestion_ZeroBased(question, index, responses) ==
    LET questionId == ToString(index)
        questionType == QuestionType(question)
        collected == HandlerCollectAnswers(responses, questionId, questionType)
    IN  [questionId |-> questionId,
         questionText |-> QuestionText(question, questionId),
         questionType |-> questionType,
         options |-> question.options,
         responses |-> SortByCountDesc(ObjectEntries(CountAnswers(collected.all))),
         hasTextResponses |-> IsTextType(questionType),
         textResponses |-> IF IsTextType(questionType)
                           THEN SliceFirst(collected.text, TextLimit)
                           ELSE <<>>]

\* Lines 429-490.
HandlerAnalyzeQuestion(question, index, responses) ==
    LET questionId == ToString(index + 1)
        questionType == QuestionType(question)
        collected == HandlerCollectAnswers(responses, questionId, questionType)
    IN  [questionId |-> questionId,
         questionText |-> QuestionText(question, questionId),
         questionType |-> questionType,
         options |-> question.options,
         responses |-> SortByCountDesc(ObjectEntries(CountAnswers(collected.all))),
         hasTextResponses |-> IsTextType(questionType),
         textResponses |-> IF IsTextType(questionType)
                           THEN SliceFirst(collected.text, TextLimit)
                           ELSE <<>>]

(***************************************************************************)
(* HTTP layer.  A request carries a token that is absent ("none"), present *)
(* but rejected by jwt.verify ("invalid"), or accepted ("valid").  res is  *)
(* the response to the step just taken; res.db lists the statements that   *)
(* the request issued against the database.                                *)
(***************************************************************************)
Tokens == {"none", "invalid", "valid"}

NoResponse ==
    [stack |-> "none", route |-> "none", token |-> "none", id |-> 0, nan |-> FALSE,
     status |-> 0, body |-> [kind |-> "none"], db |-> {}]

Response(stack, route, token, id, nan, status, body, db) ==
    [stack |-> stack, route |-> route, token |-> token, id |-> id, nan |-> nan,
     status |-> status, body |-> body, db |-> db]

Message(m) == [kind |-> "message", message |-> m, error |-> ""]

\* { message, error: error.message }
MessageWithError(m, e) == [kind |-> "message", message |-> m, error |-> e]

\* Variant of authenticateToken that calls next() when the header carries
\* no token.
AuthenticateToken_NoTokenPasses(token) ==
    IF token = "invalid" THEN 403 ELSE 0

\* server/routes.ts authenticateToken: 0 stands for next().
AuthenticateToken(token) ==
    IF token = "none" THEN 401
    ELSE IF token = "invalid" THEN 403
    ELSE 0

AuthMessage(status) ==
    IF status = 401 THEN Message("Access token required") ELSE Message("Invalid token")

\* GET /api/surveys/:id/analytics of the Express router.
ExpressSurveyAnalyticsResponse(token, id, nan) ==
    LET route == "GET /api/surveys/:id/analytics"
        auth == AuthenticateToken(token)
    IN  IF auth # 0
        THEN Response("express", route, token, id, nan, auth, AuthMessage(auth), {})
        ELSE IF nan
        THEN Response("express", route, token, id, nan, 400,
                      Message("Invalid survey ID"), {})
        ELSE LET data == GetSurveyAnalytics(id)
             IN  IF data.outcome = "throw"
                 THEN Response("express", route, token, id, nan, 500,
                               MessageWithError("Failed to fetch survey analytics",
                                                IF data.notFound
                                                THEN "Survey with ID not found"
                                                ELSE "questions.map is not a function"),
                               IF data.notFound THEN {"select surveys"}
                               ELSE {"select surveys", "select survey_responses"})
                 ELSE Response("express", route, token, id, nan, 200,
                               [kind |-> "analytics",
                                survey |-> data.survey,
                                totalResponses |-> data.totalResponses,
                                questionAnalytics |-> data.questionAnalytics],
                               {"select surveys", "select survey_responses"})

ExpressSurveyAnalytics(token, id, nan) ==
    /\ res' = ExpressSurveyAnalyticsResponse(token, id, nan)
    /\ UNCHANGED <<crudVars, wrapperVars, clientVars, memory, surveys, surveyResponses, rewardItems, nextRewardItemId>>

\* GET /api/surveys/:id/analytics of api/index.ts, lines 390-503.  The
\* handler never looks at the Authorization header.  DATABASE_URL is taken
\* to be configured, so getDb() returns a connection.
HandlerSurveyAnalyticsResponse(token, id, nan) ==
    LET route == "GET /api/surveys/:id/analytics"
    IN  IF nan
        THEN Response("serverless", route, token, id, nan, 400,
                      Message("Invalid survey ID"), {})
        ELSE IF ~SurveyExists(id)
        THEN Response("serverless", route, token, id, nan, 404,
                      Message("Survey not found"), {"select surveys"})
        ELSE LET survey == surveys[id]
                 responses == ResponsesOf(id)
                 questions == ParseQuestions(survey.questions)
             IN  IF ~questions.ok
                 THEN Response("serverless", route, token, id, nan, 500,
                               Message("Failed to fetch survey analytics"),
                               {"select surveys", "select survey_responses"})
                 ELSE Response("serverless", route, token, id, nan, 200,
                               [kind |-> "analytics",
                                survey |-> survey,
                                totalResponses |-> Len(responses),
                                questionAnalytics |->
                                    [i \in 1..Len(questions.list) |->
                                        HandlerAnalyzeQuestion(questions.list[i], i - 1,
                                                               responses)]],
                               {"select surveys", "select survey_responses"})

HandlerSurveyAnalytics(token, id, nan) ==
    /\ res' = HandlerSurveyAnalyticsResponse(token, id, nan)
    /\ UNCHANGED <<crudVars, wrapperVars, clientVars, memory, surveys, surveyResponses, rewardItems, nextRewardItemId>>

\* A row arrives in survey_responses (written by the end-user application);
\* survey_id references surveys.id.
InsertResponse(surveyId, payload, max) ==
    /\ Len(surveyResponses) < max
    /\ surveyId \in DOMAIN surveys
    /\ surveyResponses' = Append(surveyResponses,
                                 [id |-> Len(surveyResponses) + 1,
                                  surveyId |-> surveyId,
                                  responses |-> payload])
    /\ res' = NoResponse
    /\ UNCHANGED <<crudVars, wrapperVars, clientVars, memory, surveys, rewardItems, nextRewardItemId>>

\* No business and no event is stored; the serial columns start at 1.
EmptyTable == [i \in {} |-> 0]

NoCrudTables ==
    /\ businesses = EmptyTable
    /\ events = EmptyTable
    /\ nextId = [t \in {"businesses", "events", "surveys"} |-> 1]

\* api/index.ts of the Vercel wrapper, module state at load:
\*   let routesRegistered = false; let routePromise = null;
\* No invocation of the handler has arrived yet.
Invocations == 1..MaxInvocations

IdleInvocation == [pc |-> "idle", saw |-> "none", status |-> 0]

WrapperInit ==
    /\ routesRegistered = FALSE
    /\ routePromise = "null"
    /\ registerCalls = 0
    /\ invocations = [i \in Invocations |-> IdleInvocation]

\* localStorage.getItem('auth_token') is null when the key is absent.  A
\* stored token is a JWT whose payload names a user and an expiry, or a
\* string that atob / JSON.parse reject or whose payload has no exp.
NoToken == [kind |-> "null", id |-> 0, exp |-> 0]

NoUser == [id |-> 0]

\* AuthProvider before its effect has run: useState(null), useState(true);
\* the browser holds no auth_token.
ClientInit ==
    /\ localStorage = NoToken
    /\ user = NoUser
    /\ isLoading = TRUE
    /\ now = 0

\* The collections of MemoryStorage whose records carry an active flag
\* (events carry a status and users a role instead).
FlaggedKinds == {"business", "reward", "survey"}

\* A record of MemoryStorage; kind names the collection it was created for.
MemoryRecord(id, kind, active) ==
    IF kind \in FlaggedKinds
    THEN [id |-> id, kind |-> kind, name |-> "seed", active |-> active]
    ELSE [id |-> id, kind |-> kind, name |-> "seed"]

\* MemoryStorage after its constructor: seedData pushes one admin user, two
\* businesses, one event, one reward and one survey, ids 1 to 6.
SeededMemory ==
    [users |-> <<MemoryRecord(1, "user", TRUE)>>,
     businesses |-> <<MemoryRecord(2, "business", TRUE), MemoryRecord(3, "business", TRUE)>>,
     events |-> <<MemoryRecord(4, "event", TRUE)>>,
     rewards |-> <<MemoryRecord(5, "reward", TRUE)>>,
     surveys |-> <<MemoryRecord(6, "survey", TRUE)>>,
     nextId |-> 7]

MemoryInit == memory = SeededMemory

(***************************************************************************)
(* Inputs of the analytics specification.                                  *)
(***************************************************************************)
QMultipleChoice == Question(<<"m">>, "multiple_choice")
QRating == Question(<<"r">>, "rating")
QCheckbox == Question(<<"c">>, "checkbox")
QText == Question(<<"t">>, "text")
QTextarea == Question(<<"a">>, "textarea")
QUntyped == Question(StrEmpty, "")

SurveyRow(id, questions) == [id |-> id, title |-> "survey", questions |-> questions]

OneSurvey(id, questions) == [i \in {id} |-> SurveyRow(id, questions)]

TwoSurveys(q1, q2) == [i \in {1, 2} |-> SurveyRow(i, IF i = 1 THEN q1 ELSE q2)]

SurveyTables ==
    { OneSurvey(1, QArray(<<QMultipleChoice, QRating>>)),
      OneSurvey(1, QArray(<<QCheckbox, QText>>)),
      OneSurvey(1, [kind |-> "jsonArray", list |-> <<QTextarea, QCheckbox>>]),
      OneSurvey(2, QArray(<<QUntyped, QMultipleChoice>>)),
      TwoSurveys(QArray(<<QRating>>), QArray(<<QMultipleChoice, QCheckbox>>)) }

Payloads ==
    { Payload("object", Answers2(StrA, StrB)),
      Payload("object", Answers2(StrB, StrMessy)),
      Payload("object", Answers2(StrAcommaB, StrEmpty)),
      Payload("json", Answers2(Str5, Str3)),
      Payload("object", Answers1(Str3)),
      Payload("badJson", Answers0) }

ProbeIds == {1, 2}

Init ==
    /\ surveys \in SurveyTables
    /\ surveyResponses = <<>>
    /\ rewardItems = [i \in {} |-> 0]
    /\ nextRewardItemId = 1
    /\ res = NoResponse
    /\ NoCrudTables
    /\ WrapperInit
    /\ ClientInit
    /\ MemoryInit

Next ==
    \/ \E sid \in ProbeIds, p \in Payloads : InsertResponse(sid, p, MaxResponses)
    \/ \E id \in ProbeIds : ExpressSurveyAnalytics("valid", id, FALSE)
    \/ ExpressSurveyAnalytics("valid", 0, TRUE)
    \/ \E id \in ProbeIds : HandlerSurveyAnalytics("valid", id, FALSE)
    \/ HandlerSurveyAnalytics("valid", 0, TRUE)

Spec == Init /\ [][Next]_vars

(***************************************************************************)
(* Vocabulary of the properties, written from the stored rows and the      *)
(* response alone.                                                         *)
(***************************************************************************)
AnalyticsRoute == "GET /api/surveys/:id/analytics"

IsAnalyticsRequest == res.route = AnalyticsRoute /\ res.token = "valid" /\ ~res.nan

IsAnalyticsSuccess == IsAnalyticsRequest /\ res.status = 200 /\ res.body.kind = "analytics"

\* Indices of the stored rows of the survey the last request asked for.
StoredRows == {i \in 1..Len(surveyResponses) : surveyResponses[i].surveyId = res.id}

\* The answer string a stored row holds under a key; the empty string when
\* the payload does not parse or has no such key.
AnswerUnder(i, key) ==
    LET r == surveyResponses[i].responses
    IN  IF r.kind # "badJson" /\ key \in DOMAIN r.answers THEN r.answers[key] ELSE StrEmpty

\* Decimal key of the 1-based position k (positions of the model are < 10).
PositionKey(k) == <<Digits[k + 1]>>

IsCounted(questionType) ==
    questionType # "checkbox" /\ questionType # "text" /\ questionType # "textarea"

Entries == res.body.questionAnalytics

\* Number of entries of the responses sequence (0 when a is not reported).
ReportedCount(entry, a) ==
    IF \E j \in 1..Len(entry.responses) : entry.responses[j].answer = a
    THEN LET j == CHOOSE j \in 1..Len(entry.responses) : entry.responses[j].answer = a
         IN  entry.responses[j].count
    ELSE 0

\* C1: a survey-analytics request for a surveyId that matches no stored
\* survey ends in HTTP 404, in the Express router and the serverless handler.
C1_MissingSurveyIs404 ==
    (IsAnalyticsRequest /\ res.id \notin DOMAIN surveys) => res.status = 404

\* C2: totalResponses equals the number of stored response rows whose
\* surveyId is the requested survey, whatever the rows' payloads hold.
C2_TotalResponsesCountsRows ==
    IsAnalyticsSuccess => res.body.totalResponses = Cardinality(StoredRows)

\* C2 witness: a successful analytics response over rows that include an
\* unparseable payload, a row of another survey and a row that leaves a
\* question unanswered.
C2_Witness ==
    /\ IsAnalyticsSuccess
    /\ res.body.totalResponses = 2
    /\ \E i \in StoredRows : surveyResponses[i].responses.kind = "badJson"
    /\ \E i \in StoredRows : AnswerUnder(i, Str1) = StrEmpty
    /\ \E i \in 1..Len(surveyResponses) : surveyResponses[i].surveyId # res.id

\* C3: for a question that is neither checkbox nor free text, at position k,
\* every reported count equals the number of stored responses of the survey
\* whose answer under key k is exactly that string, and every non-empty
\* stored answer is reported; N responses choosing one option give count N.
C3_ExactStringCounts ==
    IsAnalyticsSuccess =>
        \A k \in 1..Len(Entries) :
            IsCounted(Entries[k].questionType) =>
                /\ \A j \in 1..Len(Entries[k].responses) :
                      Entries[k].responses[j].count =
                          Cardinality({i \in StoredRows :
                              AnswerUnder(i, PositionKey(k)) = Entries[k].responses[j].answer})
                /\ \A i \in StoredRows :
                      AnswerUnder(i, PositionKey(k)) # StrEmpty =>
                          ReportedCount(Entries[k], AnswerUnder(i, PositionKey(k))) =
                              Cardinality({i2 \in StoredRows :
                                  AnswerUnder(i2, PositionKey(k)) = AnswerUnder(i, PositionKey(k))})

\* C3 witness: three multiple-choice responses choosing the same option, and
\* the option is reported with count 3.
C3_Witness ==
    /\ IsAnalyticsSuccess
    /\ Len(Entries) >= 1
    /\ Entries[1].questionType = "multiple_choice"
    /\ Cardinality({i \in StoredRows : AnswerUnder(i, Str1) = StrA}) = 3
    /\ ReportedCount(Entries[1], StrA) = 3

\* The comma-separated pieces of an answer, each trimmed, empty ones dropped.
TrimmedTokens(a) ==
    LET pieces == Split(a, ",")
    IN  SelectSeq([j \in 1..Len(pieces) |-> Trim(pieces[j])], LAMBDA t : t # StrEmpty)

\* What a stored row contributes to the question under key, in order.
RowTokens(i, key, questionType) ==
    IF AnswerUnder(i, key) = StrEmpty THEN <<>>
    ELSE IF questionType = "checkbox" THEN TrimmedTokens(AnswerUnder(i, key))
    ELSE <<AnswerUnder(i, key)>>

RECURSIVE ScanTokens(_, _, _)
\* The tokens of rows 1..n of the requested survey, in scan order.
ScanTokens(n, key, questionType) ==
    IF n = 0 THEN <<>>
    ELSE ScanTokens(n - 1, key, questionType)
         \o (IF surveyResponses[n].surveyId = res.id
             THEN RowTokens(n, key, questionType) ELSE <<>>)

AllTokens(key, questionType) == ScanTokens(Len(surveyResponses), key, questionType)

Occurrences(seq, t) == Cardinality({j \in 1..Len(seq) : seq[j] = t})

FirstSeen(seq, t) == CHOOSE j \in 1..Len(seq) : seq[j] = t /\ \A h \in 1..(j - 1) : seq[h] # t

RECURSIVE SumCounts(_)
SumCounts(rs) == IF rs = <<>> THEN 0 ELSE Head(rs).count + SumCounts(Tail(rs))

\* C4: for a checkbox question the stored answer is split on commas and each
\* token counted separately: the count of a token equals the number of its
\* occurrences among the (trimmed, non-empty) split values of all responses,
\* so one response "A, B" adds 1 to "A" and 1 to "B".
C4_CheckboxTokensCounted ==
    IsAnalyticsSuccess =>
        \A k \in 1..Len(Entries) :
            Entries[k].questionType = "checkbox" =>
                LET tokens == AllTokens(PositionKey(k), "checkbox")
                IN  /\ \A j \in 1..Len(tokens) :
                          ReportedCount(Entries[k], tokens[j]) = Occurrences(tokens, tokens[j])
                    /\ \A j \in 1..Len(Entries[k].responses) :
                          Entries[k].responses[j].count =
                              Occurrences(tokens, Entries[k].responses[j].answer)

\* C4 witness: a checkbox question whose only answering response is "A, B",
\* reported as "A" with count 1 and "B" with count 1.
C4_Witness ==
    /\ IsAnalyticsSuccess
    /\ Len(Entries) >= 1
    /\ Entries[1].questionType = "checkbox"
    /\ Cardinality({i \in StoredRows : AnswerUnder(i, Str1) # StrEmpty}) = 1
    /\ \E i \in StoredRows : AnswerUnder(i, Str1) = StrAcommaB
    /\ ReportedCount(Entries[1], StrA) = 1
    /\ ReportedCount(Entries[1], StrB) = 1

\* C5: in every question of the analytics output the responses sequence is
\* sorted by count descending: each count is a number at least as large as
\* the count of the entry that follows it.
C5_SortedByCountDescending ==
    IsAnalyticsSuccess =>
        \A k \in 1..Len(Entries) :
            \A j \in 1..(Len(Entries[k].responses) - 1) :
                /\ IsNumber(Entries[k].responses[j].count)
                /\ IsNumber(Entries[k].responses[j + 1].count)
                /\ Entries[k].responses[j].count >= Entries[k].responses[j + 1].count

\* C5 witness: the most frequent answer was first seen after a less frequent
\* one, and is reported before it.
C5_Witness ==
    /\ IsAnalyticsSuccess
    /\ \E k \in 1..Len(Entries) :
          LET tokens == AllTokens(PositionKey(k), Entries[k].questionType)
          IN  /\ Len(Entries[k].responses) >= 2
              /\ Entries[k].responses[1].count > Entries[k].responses[2].count
              /\ FirstSeen(tokens, Entries[k].responses[2].answer)
                     < FirstSeen(tokens, Entries[k].responses[1].answer)

\* The questions of the requested survey as the aggregator reads them.
StoredQuestions == surveys[res.id].questions.list

SeqToSet(seq) == {seq[j] : j \in 1..Len(seq)}

C8_OneEntryPerQuestionByPosition ==
    IsAnalyticsSuccess =>
        /\ Len(Entries) = Len(StoredQuestions)
        /\ \A k \in 1..Len(Entries) :
              LET tokens == AllTokens(PositionKey(k), Entries[k].questionType)
              IN  /\ Entries[k].questionId = PositionKey(k)
                  /\ Entries[k].questionType = QuestionType(StoredQuestions[k])
                  /\ Entries[k].options = StoredQuestions[k].options
                  /\ (StoredQuestions[k].text # StrEmpty =>
                          Entries[k].questionText = StoredQuestions[k].text)
                  /\ {Entries[k].responses[j].answer : j \in 1..Len(Entries[k].responses)}
                         = SeqToSet(tokens)
                  /\ SumCounts(Entries[k].responses) = Len(tokens)

\* C8 witness: a two-question survey whose responses answer the two keys
\* differently, and the two entries report different answers.
C8_Witness ==
    /\ IsAnalyticsSuccess
    /\ Len(Entries) = 2
    /\ Entries[1].responses # <<>>
    /\ Entries[2].responses # <<>>
    /\ \A j \in 1..Len(Entries[1].responses) :
          ReportedCount(Entries[2], Entries[1].responses[j].answer) = 0

\* C9 (as claimed): two answers of one question with equal counts appear in
\* first-seen order, numeric-looking answers included.
C9_TiesInFirstSeenOrder ==
    IsAnalyticsSuccess =>
        \A k \in 1..Len(Entries) :
            LET tokens == AllTokens(PositionKey(k), Entries[k].questionType)
                rs == Entries[k].responses
            IN  \A i \in 1..Len(rs) : \A j \in (i + 1)..Len(rs) :
                    rs[i].count = rs[j].count =>
                        FirstSeen(tokens, rs[i].answer) < FirstSeen(tokens, rs[j].answer)

\* C9 (amended): among answers with equal counts, the answers that are
\* canonical non-negative integers (array-index keys, such as rating values)
\* come first in ascending numeric order, followed by all other answers in
\* first-seen order.
C9_TiesIntegerKeysThenFirstSeen ==
    IsAnalyticsSuccess =>
        \A k \in 1..Len(Entries) :
            LET tokens == AllTokens(PositionKey(k), Entries[k].questionType)
                rs == Entries[k].responses
            IN  \A i \in 1..Len(rs) : \A j \in (i + 1)..Len(rs) :
                    rs[i].count = rs[j].count =>
                        IF IsArrayIndex(rs[i].answer) /\ IsArrayIndex(rs[j].answer)
                        THEN NumLeq(rs[i].answer, rs[j].answer)
                        ELSE IF IsArrayIndex(rs[j].answer) THEN FALSE
                        ELSE IF IsArrayIndex(rs[i].answer) THEN TRUE
                        ELSE FirstSeen(tokens, rs[i].answer) < FirstSeen(tokens, rs[j].answer)

\* C9 witness: "5" is first seen before "3" and "B" before "A", all with
\* count 1; the report lists "3", "5", then "B" ahead of "A".
C9_Witness ==
    /\ IsAnalyticsSuccess
    /\ \E k \in 1..Len(Entries) :
          LET tokens == AllTokens(PositionKey(k), Entries[k].questionType)
              rs == Entries[k].responses
          IN  /\ Len(rs) = 3
              /\ rs[1].answer = Str3 /\ rs[2].answer = Str5 /\ rs[3].answer = StrB
              /\ rs[1].count = 1 /\ rs[2].count = 1 /\ rs[3].count = 1
              /\ FirstSeen(tokens, Str5) < FirstSeen(tokens, Str3)
              /\ FirstSeen(tokens, StrB) < FirstSeen(tokens, Str3)

(***************************************************************************)
(* Specification of the free-text cap: one survey with a text question     *)
(* and enough response rows to exceed the limit of ten.                    *)
(***************************************************************************)
StrX == <<"x">>
StrY == <<"y">>

TextSurveys == OneSurvey(1, QArray(<<QText, QMultipleChoice>>))

TextInitialRows ==
    { <<>>,
      <<[id |-> 1, surveyId |-> 1, responses |-> Payload("object", Answers1(StrY))]>> }

TextPayloads ==
    { Payload("object", Answers2(StrX, StrA)),
      Payload("json", AnswersAt2(StrB)) }

InitText ==
    /\ surveys = TextSurveys
    /\ surveyResponses \in TextInitialRows
    /\ rewardItems = [i \in {} |-> 0]
    /\ nextRewardItemId = 1
    /\ res = NoResponse
    /\ NoCrudTables
    /\ WrapperInit
    /\ ClientInit
    /\ MemoryInit

NextText ==
    \/ \E p \in TextPayloads : InsertResponse(1, p, MaxTextRows)
    \/ ExpressSurveyAnalytics("valid", 1, FALSE)
    \/ HandlerSurveyAnalytics("valid", 1, FALSE)

SpecText == InitText /\ [][NextText]_vars

\* C7: for a text or textarea question textResponses holds at most 10
\* strings and is exactly the first min(10, n) raw answers in scan order,
\* n being the number of responses answering the question; for every other
\* question type textResponses is absent.
C7_TextResponsesFirstTen ==
    IsAnalyticsSuccess =>
        \A k \in 1..Len(Entries) :
            IF Entries[k].questionType = "text" \/ Entries[k].questionType = "textarea"
            THEN LET raw == AllTokens(PositionKey(k), Entries[k].questionType)
                     n == Len(raw)
                 IN  /\ Entries[k].hasTextResponses
                     /\ Len(Entries[k].textResponses) <= 10
                     /\ Len(Entries[k].textResponses) = (IF n < 10 THEN n ELSE 10)
                     /\ \A j \in 1..Len(Entries[k].textResponses) :
                           Entries[k].textResponses[j] = raw[j]
            ELSE ~Entries[k].hasTextResponses

\* C7 witness: eleven responses answer the text question, one response does
\* not; the ten reported strings start with the first answer and leave out
\* the eleventh.
C7_Witness ==
    /\ IsAnalyticsSuccess
    /\ Len(Entries) = 2
    /\ Entries[1].questionType = "text"
    /\ Len(AllTokens(Str1, "text")) = 11
    /\ Cardinality(StoredRows) = 12
    /\ Len(Entries[1].textResponses) = 10
    /\ Entries[1].textResponses[1] = StrY
    /\ ~Entries[2].hasTextResponses

(***************************************************************************)
(* Reward-item routes.  A request body is schema-valid or not and carries  *)
(* a name; a stored reward item is [id, name].  Ids come from the serial   *)
(* column (nextRewardItemId).                                              *)
(***************************************************************************)
RewardNames == {"coffee", "ticket"}

RewardBodies == [valid : BOOLEAN, name : RewardNames]

RewardIds == 1..MaxRewardItems

RewardItem(id, name) == [id |-> id, name |-> name]

RewardItemBody(item) == [kind |-> "rewardItem", item |-> item]

RewardItemList == [kind |-> "rewardItems", items |-> {rewardItems[i] : i \in DOMAIN rewardItems}]

\* insert into reward_items ... returning
InsertRewardItem(name) ==
    [i \in DOMAIN rewardItems \cup {nextRewardItemId} |->
        IF i = nextRewardItemId THEN RewardItem(i, name) ELSE rewardItems[i]]

\* update reward_items set ... where id = :id
UpdateRewardItem(id, name) ==
    [i \in DOMAIN rewardItems |-> IF i = id THEN RewardItem(i, name) ELSE rewardItems[i]]

\* delete from reward_items where id = :id
DeleteRewardItem(id) == [i \in DOMAIN rewardItems \ {id} |-> rewardItems[i]]

\* GET /api/reward-items of the Express router.
ExpressListRewardItems(token) ==
    LET route == "GET /api/reward-items"
        auth == AuthenticateToken(token)
    IN  /\ res' = IF auth # 0
                  THEN Response("express", route, token, 0, FALSE, auth, AuthMessage(auth), {})
                  ELSE Response("express", route, token, 0, FALSE, 200, RewardItemList,
                                {"select reward_items"})
        /\ UNCHANGED <<crudVars, wrapperVars, clientVars, memory, surveys, surveyResponses, rewardItems, nextRewardItemId>>

\* POST /api/reward-items of the Express router.
ExpressCreateRewardItem(token, body) ==
    LET route == "POST /api/reward-items"
        auth == AuthenticateToken(token)
    IN  IF auth # 0
        THEN /\ res' = Response("express", route, token, 0, FALSE, auth, AuthMessage(auth), {})
             /\ UNCHANGED <<crudVars, wrapperVars, clientVars, memory, surveys, surveyResponses, rewardItems, nextRewardItemId>>
        ELSE IF ~body.valid
        THEN /\ res' = Response("express", route, token, 0, FALSE, 400,
                                MessageWithError("Invalid reward item data", "ZodError"), {})
             /\ UNCHANGED <<crudVars, wrapperVars, clientVars, memory, surveys, surveyResponses, rewardItems, nextRewardItemId>>
        ELSE /\ nextRewardItemId <= MaxRewardItems
             /\ rewardItems' = InsertRewardItem(body.name)
             /\ nextRewardItemId' = nextRewardItemId + 1
             /\ res' = Response("express", route, token, nextRewardItemId, FALSE, 201,
                                RewardItemBody(RewardItem(nextRewardItemId, body.name)),
                                {"insert reward_items"})
             /\ UNCHANGED <<crudVars, wrapperVars, clientVars, memory, surveys, surveyResponses>>

\* PUT /api/reward-items/:id of the Express router; updateRewardItem throws
\* when no row matches and the route's catch answers 400.
ExpressUpdateRewardItem(token, id, body) ==
    LET route == "PUT /api/reward-items/:id"
        auth == AuthenticateToken(token)
    IN  IF auth # 0
        THEN /\ res' = Response("express", route, token, id, FALSE, auth, AuthMessage(auth), {})
             /\ UNCHANGED <<crudVars, wrapperVars, clientVars, memory, surveys, surveyResponses, rewardItems, nextRewardItemId>>
        ELSE IF ~body.valid
        THEN /\ res' = Response("express", route, token, id, FALSE, 400,
                                MessageWithError("Invalid reward item data", "ZodError"), {})
             /\ UNCHANGED <<crudVars, wrapperVars, clientVars, memory, surveys, surveyResponses, rewardItems, nextRewardItemId>>
        ELSE IF id \notin DOMAIN rewardItems
        THEN /\ res' = Response("express", route, token, id, FALSE, 400,
                                MessageWithError("Invalid reward item data",
                                                 "Reward item with ID not found"),
                                {"update reward_items"})
             /\ UNCHANGED <<crudVars, wrapperVars, clientVars, memory, surveys, surveyResponses, rewardItems, nextRewardItemId>>
        ELSE /\ rewardItems' = UpdateRewardItem(id, body.name)
             /\ res' = Response("express", route, token, id, FALSE, 200,
                                RewardItemBody(RewardItem(id, body.name)),
                                {"update reward_items"})
             /\ UNCHANGED <<crudVars, wrapperVars, clientVars, memory, surveys, surveyResponses, nextRewardItemId>>

\* DELETE /api/reward-items/:id of the Express router.
ExpressDeleteRewardItem(token, id) ==
    LET route == "DELETE /api/reward-items/:id"
        auth == AuthenticateToken(token)
    IN  IF auth # 0
        THEN /\ res' = Response("express", route, token, id, FALSE, auth, AuthMessage(auth), {})
             /\ UNCHANGED <<crudVars, wrapperVars, clientVars, memory, surveys, surveyResponses, rewardItems, nextRewardItemId>>
        ELSE /\ rewardItems' = DeleteRewardItem(id)
             /\ res' = Response("express", route, token, id, FALSE, 204, [kind |-> "none"],
                                {"delete reward_items"})
             /\ UNCHANGED <<crudVars, wrapperVars, clientVars, memory, surveys, surveyResponses, nextRewardItemId>>

\* api/index.ts lines 506-519: GET /api/reward-items.
HandlerListRewardItems(token) ==
    /\ res' = Response("serverless", "GET /api/reward-items", token, 0, FALSE, 200,
                       RewardItemList, {"select reward_items"})
    /\ UNCHANGED <<crudVars, wrapperVars, clientVars, memory, surveys, surveyResponses, rewardItems, nextRewardItemId>>

\* api/index.ts lines 522-535: POST /api/reward-items.  The body goes to the
\* insert unvalidated; a body the table rejects makes the insert throw.
HandlerCreateRewardItem(token, body) ==
    LET route == "POST /api/reward-items"
    IN  IF ~body.valid
        THEN /\ res' = Response("serverless", route, token, 0, FALSE, 400,
                                Message("Invalid reward item data"), {"insert reward_items"})
             /\ UNCHANGED <<crudVars, wrapperVars, clientVars, memory, surveys, surveyResponses, rewardItems, nextRewardItemId>>
        ELSE /\ nextRewardItemId <= MaxRewardItems
             /\ rewardItems' = InsertRewardItem(body.name)
             /\ nextRewardItemId' = nextRewardItemId + 1
             /\ res' = Response("serverless", route, token, nextRewardItemId, FALSE, 201,
                                RewardItemBody(RewardItem(nextRewardItemId, body.name)),
                                {"insert reward_items"})
             /\ UNCHANGED <<crudVars, wrapperVars, clientVars, memory, surveys, surveyResponses>>

\* api/index.ts lines 538-560: PUT /api/reward-items/:id.
HandlerUpdateRewardItem(token, id, nan, body) ==
    LET route == "PUT /api/reward-items/:id"
    IN  IF nan
        THEN /\ res' = Response("serverless", route, token, id, nan, 400,
                                Message("Invalid reward item ID"), {})
             /\ UNCHANGED <<crudVars, wrapperVars, clientVars, memory, surveys, surveyResponses, rewardItems, nextRewardItemId>>
        ELSE IF ~body.valid
        THEN /\ res' = Response("serverless", route, token, id, nan, 400,
                                Message("Invalid reward item data"), {"update reward_items"})
             /\ UNCHANGED <<crudVars, wrapperVars, clientVars, memory, surveys, surveyResponses, rewardItems, nextRewardItemId>>
        ELSE IF id \notin DOMAIN rewardItems
        THEN /\ res' = Response("serverless", route, token, id, nan, 404,
                                Message("Reward item not found"), {"update reward_items"})
             /\ UNCHANGED <<crudVars, wrapperVars, clientVars, memory, surveys, surveyResponses, rewardItems, nextRewardItemId>>
        ELSE /\ rewardItems' = UpdateRewardItem(id, body.name)
             /\ res' = Response("serverless", route, token, id, nan, 200,
                                RewardItemBody(RewardItem(id, body.name)),
                                {"update reward_items"})
             /\ UNCHANGED <<crudVars, wrapperVars, clientVars, memory, surveys, surveyResponses, nextRewardItemId>>

\* api/index.ts lines 538-547 and 562-570: DELETE /api/reward-items/:id.
HandlerDeleteRewardItem(token, id, nan) ==
    LET route == "DELETE /api/reward-items/:id"
    IN  IF nan
        THEN /\ res' = Response("serverless", route, token, id, nan, 400,
                                Message("Invalid reward item ID"), {})
             /\ UNCHANGED <<crudVars, wrapperVars, clientVars, memory, surveys, surveyResponses, rewardItems, nextRewardItemId>>
        ELSE /\ rewardItems' = DeleteRewardItem(id)
             /\ res' = Response("serverless", route, token, id, nan, 204, [kind |-> "none"],
                                {"delete reward_items"})
             /\ UNCHANGED <<crudVars, wrapperVars, clientVars, memory, surveys, surveyResponses, nextRewardItemId>>

(***************************************************************************)
(* Specification of the admin routes under every kind of token.            *)
(***************************************************************************)
AuthSurveys == OneSurvey(1, QArray(<<QMultipleChoice, QRating>>))

AuthInitialRows ==
    <<[id |-> 1, surveyId |-> 1, responses |-> Payload("object", Answers2(StrA, Str5))]>>

InitAuth ==
    /\ surveys = AuthSurveys
    /\ surveyResponses = AuthInitialRows
    /\ rewardItems = [i \in {} |-> 0]
    /\ nextRewardItemId = 1
    /\ res = NoResponse
    /\ NoCrudTables
    /\ WrapperInit
    /\ ClientInit
    /\ MemoryInit

NextAuth ==
    \/ \E t \in Tokens, id \in ProbeIds : ExpressSurveyAnalytics(t, id, FALSE)
    \/ \E t \in Tokens, id \in ProbeIds : HandlerSurveyAnalytics(t, id, FALSE)
    \/ \E t \in Tokens : ExpressListRewardItems(t)
    \/ \E t \in Tokens, b \in RewardBodies : ExpressCreateRewardItem(t, b)
    \/ \E t \in Tokens, id \in RewardIds, b \in RewardBodies : ExpressUpdateRewardItem(t, id, b)
    \/ \E t \in Tokens, id \in RewardIds : ExpressDeleteRewardItem(t, id)
    \/ \E t \in Tokens : HandlerListRewardItems(t)
    \/ \E t \in Tokens, b \in RewardBodies : HandlerCreateRewardItem(t, b)
    \/ \E t \in Tokens, id \in RewardIds, b \in RewardBodies :
          HandlerUpdateRewardItem(t, id, FALSE, b)
    \/ \E t \in Tokens, b \in RewardBodies : HandlerUpdateRewardItem(t, 0, TRUE, b)
    \/ \E t \in Tokens, id \in RewardIds : HandlerDeleteRewardItem(t, id, FALSE)
    \/ \E t \in Tokens : HandlerDeleteRewardItem(t, 0, TRUE)

SpecAuth == InitAuth /\ [][NextAuth]_vars

IsAdminRequest == res.stack = "express" \/ res.stack = "serverless"

\* C10: every admin route, in the Express router and the serverless handler
\* alike, requires a Bearer JWT: a request without a valid token is rejected
\* (401 or 403) and issues no statement against the database.
C10_AdminRoutesRequireToken ==
    (IsAdminRequest /\ res.token # "valid") =>
        (res.status \in {401, 403} /\ res.db = {})

\* Supporting fact for C10: the Express half of the claim.  Every modelled
\* route of the Express router rejects a request without a valid token
\* before any statement reaches the database.
ExpressRoutesRequireToken ==
    (res.stack = "express" /\ res.token # "valid") =>
        (res.status \in {401, 403} /\ res.db = {})

(***************************************************************************)
(* Business, event and survey routes.  A stored business is [id, name]; a  *)
(* stored event is [id, name, imageUrl]; a stored survey is a SurveyRow.   *)
(* A request body is one of three kinds: "valid" passes the insert schema  *)
(* (drizzle-zod createInsertSchema) and is accepted by the table;          *)
(* "coercible" fails the schema but is accepted by the table (a number     *)
(* where the schema wants a string: PostgreSQL casts the parameter to the  *)
(* text column); "rejected" fails the schema and is refused by PostgreSQL  *)
(* whether or not a row matches (a value that cannot be cast to the type   *)
(* of its column).                                                         *)
(***************************************************************************)
BodyKinds == {"valid", "coercible", "rejected"}

OldName == "old"

NewName == "new"

EntityBodies == [kind : BodyKinds, name : {NewName}]

\* insertBusinessSchema.parse / .partial().parse and its siblings.
SchemaAccepts(body) == body.kind = "valid"

\* insert ... values(body) / update ... set(body) reaching PostgreSQL.
TableAccepts(body) == body.kind # "rejected"

Business(id, name) == [id |-> id, name |-> name]

Event(id, name, imageUrl) == [id |-> id, name |-> name, imageUrl |-> imageUrl]

EntityBody(row) == [kind |-> "entity", row |-> row]

\* res.json(undefined): status 200 and nothing in the body.
EmptyBody == [kind |-> "empty"]

\* insert into <table> ... returning, the id taken from the serial column.
InsertRow(table, id, row) ==
    [i \in DOMAIN table \cup {id} |-> IF i = id THEN row ELSE table[i]]

\* update <table> set ... where id = :id
UpdateRow(table, id, row) ==
    [i \in DOMAIN table |-> IF i = id THEN row ELSE table[i]]

ExpressRejected(route, token, id, auth) ==
    Response("express", route, token, id, FALSE, auth, AuthMessage(auth), {})

\* The request is answered and no table changes.
Answer(response) ==
    /\ res' = response
    /\ UNCHANGED <<crudVars, wrapperVars, clientVars, memory, surveys, surveyResponses, rewardItems,
                   nextRewardItemId>>

\* GET /api/businesses/:id of the Express router; storage.getBusiness.
ExpressGetBusiness(token, id) ==
    LET route == "GET /api/businesses/:id"
        auth == AuthenticateToken(token)
    IN  IF auth # 0
        THEN Answer(ExpressRejected(route, token, id, auth))
        ELSE IF id \notin DOMAIN businesses
        THEN Answer(Response("express", route, token, id, FALSE, 404,
                             Message("Business not found"), {"select businesses"}))
        ELSE Answer(Response("express", route, token, id, FALSE, 200,
                             EntityBody(businesses[id]), {"select businesses"}))

\* POST /api/businesses of the Express router; storage.createBusiness.
ExpressCreateBusiness(token, body) ==
    LET route == "POST /api/businesses"
        auth == AuthenticateToken(token)
        id == nextId["businesses"]
    IN  IF auth # 0
        THEN Answer(ExpressRejected(route, token, 0, auth))
        ELSE IF ~SchemaAccepts(body)
        THEN Answer(Response("express", route, token, 0, FALSE, 400,
                             Message("Invalid business data"), {}))
        ELSE /\ id <= MaxEntities
             /\ businesses' = InsertRow(businesses, id, Business(id, body.name))
             /\ nextId' = [nextId EXCEPT !["businesses"] = id + 1]
             /\ res' = Response("express", route, token, id, FALSE, 201,
                                EntityBody(Business(id, body.name)), {"insert businesses"})
             /\ UNCHANGED <<events, wrapperVars, clientVars, memory, surveys, surveyResponses, rewardItems,
                            nextRewardItemId>>

\* storage.updateBusiness: result[0] of the update, undefined when no row
\* matched; it does not throw.
UpdateBusinessResult(id, name) ==
    IF id \in DOMAIN businesses THEN EntityBody(Business(id, name)) ELSE EmptyBody

\* PUT /api/businesses/:id of the Express router.
ExpressUpdateBusiness(token, id, body) ==
    LET route == "PUT /api/businesses/:id"
        auth == AuthenticateToken(token)
    IN  IF auth # 0
        THEN Answer(ExpressRejected(route, token, id, auth))
        ELSE IF ~SchemaAccepts(body)
        THEN Answer(Response("express", route, token, id, FALSE, 400,
                             Message("Invalid business data"), {}))
        ELSE /\ businesses' = UpdateRow(businesses, id, Business(id, body.name))
             /\ res' = Response("express", route, token, id, FALSE, 200,
                                UpdateBusinessResult(id, body.name), {"update businesses"})
             /\ UNCHANGED <<events, nextId, wrapperVars, clientVars, memory, surveys, surveyResponses,
                            rewardItems, nextRewardItemId>>

\* GET /api/events/:id of the Express router; storage.getEvent.
ExpressGetEvent(token, id) ==
    LET route == "GET /api/events/:id"
        auth == AuthenticateToken(token)
    IN  IF auth # 0
        THEN Answer(ExpressRejected(route, token, id, auth))
        ELSE IF id \notin DOMAIN events
        THEN Answer(Response("express", route, token, id, FALSE, 404,
                             Message("Event not found"), {"select events"}))
        ELSE Answer(Response("express", route, token, id, FALSE, 200,
                             EntityBody(events[id]), {"select events"}))

\* The multipart file of POST /api/events: absent, an image that Supabase
\* storage accepts and whose URL is written to the row, an image whose
\* upload fails, or an image that is uploaded while the update of the row
\* with its URL throws.
Files == {"none", "image", "uploadFails", "updateFails"}

NoImage == "null"

PublicUrl == "publicUrl"

EventWithWarning(row) == [kind |-> "entityWithWarning", row |-> row]

\* Variant of ExpressCreateEvent that deletes the new row again when the
\* upload fails.
ExpressCreateEvent_RollsBack(token, body, file) ==
    LET route == "POST /api/events"
        auth == AuthenticateToken(token)
        id == nextId["events"]
        event == Event(id, body.name, NoImage)
        updatedEvent == Event(id, body.name, PublicUrl)
    IN  IF auth # 0
        THEN Answer(ExpressRejected(route, token, 0, auth))
        ELSE IF ~SchemaAccepts(body)
        THEN Answer(Response("express", route, token, 0, FALSE, 400,
                             MessageWithError("Invalid event data", "ZodError"), {}))
        ELSE /\ id <= MaxEntities
             /\ nextId' = [nextId EXCEPT !["events"] = id + 1]
             /\ IF file = "none"
                THEN /\ events' = InsertRow(events, id, event)
                     /\ res' = Response("express", route, token, id, FALSE, 201,
                                        EntityBody(event), {"insert events"})
                ELSE IF file = "uploadFails"
                THEN /\ events' = events
                     /\ res' = Response("express", route, token, id, FALSE, 201,
                                        EventWithWarning(event), {"insert events"})
                ELSE IF file = "updateFails"
                THEN /\ events' = InsertRow(events, id, event)
                     /\ res' = Response("express", route, token, id, FALSE, 201,
                                        EventWithWarning(event),
                                        {"insert events", "update events"})
                ELSE /\ events' = InsertRow(events, id, updatedEvent)
                     /\ res' = Response("express", route, token, id, FALSE, 201,
                                        EntityBody(updatedEvent),
                                        {"insert events", "update events"})
             /\ UNCHANGED <<businesses, wrapperVars, clientVars, memory, surveys, surveyResponses, rewardItems,
                            nextRewardItemId>>

\* POST /api/events of the Express router: the event is inserted first, the
\* image is uploaded to the folder named after the new id, and the row is
\* updated with the public URL (storage.createEvent, storage.updateEvent).
ExpressCreateEvent(token, body, file) ==
    LET route == "POST /api/events"
        auth == AuthenticateToken(token)
        id == nextId["events"]
        event == Event(id, body.name, NoImage)
        updatedEvent == Event(id, body.name, PublicUrl)
    IN  IF auth # 0
        THEN Answer(ExpressRejected(route, token, 0, auth))
        ELSE IF ~SchemaAccepts(body)
        THEN Answer(Response("express", route, token, 0, FALSE, 400,
                             MessageWithError("Invalid event data", "ZodError"), {}))
        ELSE /\ id <= MaxEntities
             /\ nextId' = [nextId EXCEPT !["events"] = id + 1]
             /\ IF file = "none"
                THEN /\ events' = InsertRow(events, id, event)
                     /\ res' = Response("express", route, token, id, FALSE, 201,
                                        EntityBody(event), {"insert events"})
                ELSE IF file = "uploadFails"
                THEN /\ events' = InsertRow(events, id, event)
                     /\ res' = Response("express", route, token, id, FALSE, 201,
                                        EventWithWarning(event), {"insert events"})
                ELSE IF file = "updateFails"
                THEN /\ events' = InsertRow(events, id, event)
                     /\ res' = Response("express", route, token, id, FALSE, 201,
                                        EventWithWarning(event),
                                        {"insert events", "update events"})
                ELSE /\ events' = InsertRow(events, id, updatedEvent)
                     /\ res' = Response("express", route, token, id, FALSE, 201,
                                        EntityBody(updatedEvent),
                                        {"insert events", "update events"})
             /\ UNCHANGED <<businesses, wrapperVars, clientVars, memory, surveys, surveyResponses, rewardItems,
                            nextRewardItemId>>

\* PUT /api/events/:id of the Express router; storage.updateEvent throws
\* when no row matched and the route's catch answers 400.
ExpressUpdateEvent(token, id, body) ==
    LET route == "PUT /api/events/:id"
        auth == AuthenticateToken(token)
    IN  IF auth # 0
        THEN Answer(ExpressRejected(route, token, id, auth))
        ELSE IF ~SchemaAccepts(body)
        THEN Answer(Response("express", route, token, id, FALSE, 400,
                             MessageWithError("Invalid event data", "ZodError"), {}))
        ELSE IF id \notin DOMAIN events
        THEN Answer(Response("express", route, token, id, FALSE, 400,
                             MessageWithError("Invalid event data",
                                              "Event with ID not found"),
                             {"update events"}))
        ELSE /\ events' = UpdateRow(events, id, Event(id, body.name, events[id].imageUrl))
             /\ res' = Response("express", route, token, id, FALSE, 200,
                                EntityBody(Event(id, body.name, events[id].imageUrl)),
                                {"update events"})
             /\ UNCHANGED <<businesses, nextId, wrapperVars, clientVars, memory, surveys, surveyResponses,
                            rewardItems, nextRewardItemId>>

\* GET /api/surveys/:id of the Express router; storage.getSurvey.
ExpressGetSurvey(token, id) ==
    LET route == "GET /api/surveys/:id"
        auth == AuthenticateToken(token)
    IN  IF auth # 0
        THEN Answer(ExpressRejected(route, token, id, auth))
        ELSE IF id \notin DOMAIN surveys
        THEN Answer(Response("express", route, token, id, FALSE, 404,
                             Message("Survey not found"), {"select surveys"}))
        ELSE Answer(Response("express", route, token, id, FALSE, 200,
                             EntityBody(surveys[id]), {"select surveys"}))

\* POST /api/surveys of the Express router; storage.createSurvey.
ExpressCreateSurvey(token, body) ==
    LET route == "POST /api/surveys"
        auth == AuthenticateToken(token)
        id == nextId["surveys"]
    IN  IF auth # 0
        THEN Answer(ExpressRejected(route, token, 0, auth))
        ELSE IF ~SchemaAccepts(body)
        THEN Answer(Response("express", route, token, 0, FALSE, 400,
                             MessageWithError("Invalid survey data", "ZodError"), {}))
        ELSE /\ id <= MaxEntities
             /\ surveys' = InsertRow(surveys, id, SurveyRow(id, body.questions))
             /\ nextId' = [nextId EXCEPT !["surveys"] = id + 1]
             /\ res' = Response("express", route, token, id, FALSE, 201,
                                EntityBody(SurveyRow(id, body.questions)),
                                {"insert surveys"})
             /\ UNCHANGED <<businesses, events, wrapperVars, clientVars, memory, surveyResponses, rewardItems,
                            nextRewardItemId>>

\* storage.updateSurvey: the row is replaced in place; survey_responses is
\* not touched.  It throws when no row matched.
UpdateSurvey(id, body) == UpdateRow(surveys, id, SurveyRow(id, body.questions))

\* PUT /api/surveys/:id of the Express router.
ExpressUpdateSurvey(token, id, body) ==
    LET route == "PUT /api/surveys/:id"
        auth == AuthenticateToken(token)
    IN  IF auth # 0
        THEN Answer(ExpressRejected(route, token, id, auth))
        ELSE IF ~SchemaAccepts(body)
        THEN Answer(Response("express", route, token, id, FALSE, 400,
                             MessageWithError("Invalid survey data", "ZodError"), {}))
        ELSE IF id \notin DOMAIN surveys
        THEN Answer(Response("express", route, token, id, FALSE, 400,
                             MessageWithError("Invalid survey data",
                                              "Survey with ID not found"),
                             {"update surveys"}))
        ELSE /\ surveys' = UpdateSurvey(id, body)
             /\ res' = Response("express", route, token, id, FALSE, 200,
                                EntityBody(SurveyRow(id, body.questions)),
                                {"update surveys"})
             /\ UNCHANGED <<crudVars, wrapperVars, clientVars, memory, surveyResponses, rewardItems,
                            nextRewardItemId>>

\* GET /api/reward-items/:id of the Express router; storage.getRewardItem.
ExpressGetRewardItem(token, id) ==
    LET route == "GET /api/reward-items/:id"
        auth == AuthenticateToken(token)
    IN  IF auth # 0
        THEN Answer(ExpressRejected(route, token, id, auth))
        ELSE IF id \notin DOMAIN rewardItems
        THEN Answer(Response("express", route, token, id, FALSE, 404,
                             Message("Reward item not found"), {"select reward_items"}))
        ELSE Answer(Response("express", route, token, id, FALSE, 200,
                             RewardItemBody(rewardItems[id]), {"select reward_items"}))

\* api/index.ts lines 574-587: POST /api/events.  req.body goes to the insert
\* as it arrived; no schema is applied.
HandlerCreateEvent(token, body) ==
    LET route == "POST /api/events"
        id == nextId["events"]
    IN  IF ~TableAccepts(body)
        THEN Answer(Response("serverless", route, token, 0, FALSE, 400,
                             Message("Invalid event data"), {"insert events"}))
        ELSE /\ id <= MaxEntities
             /\ events' = InsertRow(events, id, Event(id, body.name, NoImage))
             /\ nextId' = [nextId EXCEPT !["events"] = id + 1]
             /\ res' = Response("serverless", route, token, id, FALSE, 201,
                                EntityBody(Event(id, body.name, NoImage)), {"insert events"})
             /\ UNCHANGED <<businesses, wrapperVars, clientVars, memory, surveys, surveyResponses, rewardItems,
                            nextRewardItemId>>

\* api/index.ts lines 590-612: GET /api/events/:id.
HandlerGetEvent(token, id, nan) ==
    LET route == "GET /api/events/:id"
    IN  IF nan
        THEN Answer(Response("serverless", route, token, id, nan, 400,
                             Message("Invalid event ID"), {}))
        ELSE IF id \notin DOMAIN events
        THEN Answer(Response("serverless", route, token, id, nan, 404,
                             Message("Event not found"), {"select events"}))
        ELSE Answer(Response("serverless", route, token, id, nan, 200,
                             EntityBody(events[id]), {"select events"}))

\* api/index.ts lines 590-599 and 614-625: PUT /api/events/:id.  req.body goes to the update
\* as it arrived; no row returned means 404.
HandlerUpdateEvent(token, id, nan, body) ==
    LET route == "PUT /api/events/:id"
    IN  IF nan
        THEN Answer(Response("serverless", route, token, id, nan, 400,
                             Message("Invalid event ID"), {}))
        ELSE IF ~TableAccepts(body)
        THEN Answer(Response("serverless", route, token, id, nan, 400,
                             Message("Invalid event data"), {"update events"}))
        ELSE IF id \notin DOMAIN events
        THEN Answer(Response("serverless", route, token, id, nan, 404,
                             Message("Event not found"), {"update events"}))
        ELSE /\ events' = UpdateRow(events, id, Event(id, body.name, events[id].imageUrl))
             /\ res' = Response("serverless", route, token, id, nan, 200,
                                EntityBody(Event(id, body.name, events[id].imageUrl)), {"update events"})
             /\ UNCHANGED <<businesses, nextId, wrapperVars, clientVars, memory, surveys, surveyResponses,
                            rewardItems, nextRewardItemId>>

\* api/index.ts lines 639-652: POST /api/surveys.  req.body goes to the insert
\* as it arrived; no schema is applied.
HandlerCreateSurvey(token, body) ==
    LET route == "POST /api/surveys"
        id == nextId["surveys"]
    IN  IF ~TableAccepts(body)
        THEN Answer(Response("serverless", route, token, 0, FALSE, 400,
                             Message("Invalid survey data"), {"insert surveys"}))
        ELSE /\ id <= MaxEntities
             /\ surveys' = InsertRow(surveys, id, SurveyRow(id, body.questions))
             /\ nextId' = [nextId EXCEPT !["surveys"] = id + 1]
             /\ res' = Response("serverless", route, token, id, FALSE, 201,
                                EntityBody(SurveyRow(id, body.questions)), {"insert surveys"})
             /\ UNCHANGED <<businesses, events, wrapperVars, clientVars, memory, surveyResponses, rewardItems,
                            nextRewardItemId>>

\* api/index.ts lines 655-677: GET /api/surveys/:id.
HandlerGetSurvey(token, id, nan) ==
    LET route == "GET /api/surveys/:id"
    IN  IF nan
        THEN Answer(Response("serverless", route, token, id, nan, 400,
                             Message("Invalid survey ID"), {}))
        ELSE IF id \notin DOMAIN surveys
        THEN Answer(Response("serverless", route, token, id, nan, 404,
                             Message("Survey not found"), {"select surveys"}))
        ELSE Answer(Response("serverless", route, token, id, nan, 200,
                             EntityBody(surveys[id]), {"select surveys"}))

\* api/index.ts lines 655-664 and 679-690: PUT /api/surveys/:id.  req.body goes to the update
\* as it arrived; no row returned means 404.
HandlerUpdateSurvey(token, id, nan, body) ==
    LET route == "PUT /api/surveys/:id"
    IN  IF nan
        THEN Answer(Response("serverless", route, token, id, nan, 400,
                             Message("Invalid survey ID"), {}))
        ELSE IF ~TableAccepts(body)
        THEN Answer(Response("serverless", route, token, id, nan, 400,
                             Message("Invalid survey data"), {"update surveys"}))
        ELSE IF id \notin DOMAIN surveys
        THEN Answer(Response("serverless", route, token, id, nan, 404,
                             Message("Survey not found"), {"update surveys"}))
        ELSE /\ surveys' = UpdateRow(surveys, id, SurveyRow(id, body.questions))
             /\ res' = Response("serverless", route, token, id, nan, 200,
                                EntityBody(SurveyRow(id, body.questions)), {"update surveys"})
             /\ UNCHANGED <<crudVars, wrapperVars, clientVars, memory, surveyResponses, rewardItems,
                            nextRewardItemId>>

\* api/index.ts lines 704-717: POST /api/businesses.  req.body goes to the insert
\* as it arrived; no schema is applied.
HandlerCreateBusiness(token, body) ==
    LET route == "POST /api/businesses"
        id == nextId["businesses"]
    IN  IF ~TableAccepts(body)
        THEN Answer(Response("serverless", route, token, 0, FALSE, 400,
                             Message("Invalid business data"), {"insert businesses"}))
        ELSE /\ id <= MaxEntities
             /\ businesses' = InsertRow(businesses, id, Business(id, body.name))
             /\ nextId' = [nextId EXCEPT !["businesses"] = id + 1]
             /\ res' = Response("serverless", route, token, id, FALSE, 201,
                                EntityBody(Business(id, body.name)), {"insert businesses"})
             /\ UNCHANGED <<events, wrapperVars, clientVars, memory, surveys, surveyResponses, rewardItems,
                            nextRewardItemId>>

\* api/index.ts lines 720-742: GET /api/businesses/:id.
HandlerGetBusiness(token, id, nan) ==
    LET route == "GET /api/businesses/:id"
    IN  IF nan
        THEN Answer(Response("serverless", route, token, id, nan, 400,
                             Message("Invalid business ID"), {}))
        ELSE IF id \notin DOMAIN businesses
        THEN Answer(Response("serverless", route, token, id, nan, 404,
                             Message("Business not found"), {"select businesses"}))
        ELSE Answer(Response("serverless", route, token, id, nan, 200,
                             EntityBody(businesses[id]), {"select businesses"}))

\* api/index.ts lines 720-729 and 744-755: PUT /api/businesses/:id.  req.body goes to the update
\* as it arrived; no row returned means 404.
HandlerUpdateBusiness(token, id, nan, body) ==
    LET route == "PUT /api/businesses/:id"
    IN  IF nan
        THEN Answer(Response("serverless", route, token, id, nan, 400,
                             Message("Invalid business ID"), {}))
        ELSE IF ~TableAccepts(body)
        THEN Answer(Response("serverless", route, token, id, nan, 400,
                             Message("Invalid business data"), {"update businesses"}))
        ELSE IF id \notin DOMAIN businesses
        THEN Answer(Response("serverless", route, token, id, nan, 404,
                             Message("Business not found"), {"update businesses"}))
        ELSE /\ businesses' = UpdateRow(businesses, id, Business(id, body.name))
             /\ res' = Response("serverless", route, token, id, nan, 200,
                                EntityBody(Business(id, body.name)), {"update businesses"})
             /\ UNCHANGED <<events, nextId, wrapperVars, clientVars, memory, surveys, surveyResponses,
                            rewardItems, nextRewardItemId>>

\* The answer of api/index.ts to a request that no branch returned from
\* (lines 778-784).
NotImplementedBody == [kind |-> "placeholder", message |-> "API endpoint not implemented yet"]

\* api/index.ts: GET /api/reward-items/:id.  The block of lines 538-571
\* parses the id and obtains the connection, handles PUT and DELETE only,
\* and a GET leaves it; no later branch matches the URL.
HandlerGetRewardItem(token, id, nan) ==
    LET route == "GET /api/reward-items/:id"
    IN  IF nan
        THEN Answer(Response("serverless", route, token, id, nan, 400,
                             Message("Invalid reward item ID"), {}))
        ELSE Answer(Response("serverless", route, token, id, nan, 200,
                             NotImplementedBody, {}))

(***************************************************************************)
(* Login.  supabase.auth.signInWithPassword answers with an error, with no *)
(* error and no user, or with a user; the call itself may throw.  The role *)
(* is read from the user's metadata ("" stands for an absent role).        *)
(***************************************************************************)
SignInOutcomes == {"authError", "noUser", "user", "throws"}

Roles == {"", "admin", "member"}

\* authData.user.user_metadata?.role || authData.user.app_metadata?.role
UserRole(userMetadataRole, appMetadataRole) ==
    IF userMetadataRole # "" THEN userMetadataRole ELSE appMetadataRole

LoginStatus_RoleFirst(signIn, userRole) ==
    IF signIn = "throws" THEN 500
    ELSE IF userRole # "admin" THEN 403
    ELSE IF signIn # "user" THEN 401
    ELSE 200

\* The status of the login handler: the credential check comes first, the
\* role check second, and the catch answers 500.
LoginStatus(signIn, userRole) ==
    IF signIn = "throws" THEN 500
    ELSE IF signIn # "user" THEN 401
    ELSE IF userRole # "admin" THEN 403
    ELSE 200

LoginBody(status, userRole) ==
    IF status = 200 THEN [kind |-> "login", token |-> "jwt", role |-> userRole]
    ELSE IF status = 401 THEN Message("Invalid credentials")
    ELSE IF status = 403 THEN Message("Admin access required")
    ELSE MessageWithError("Login failed", "signInWithPassword threw")

\* The response to POST /api/auth/login together with what Supabase said
\* about the credentials.
LoginResponse(stack, signIn, userMetadataRole, appMetadataRole) ==
    LET userRole == UserRole(userMetadataRole, appMetadataRole)
        status == LoginStatus(signIn, userRole)
    IN  [stack |-> stack, route |-> "POST /api/auth/login", token |-> "none", id |-> 0,
         nan |-> FALSE, status |-> status, body |-> LoginBody(status, userRole), db |-> {},
         login |-> [signIn |-> signIn, userMetadataRole |-> userMetadataRole,
                    appMetadataRole |-> appMetadataRole]]

\* POST /api/auth/login of the Express router.
ExpressLogin(signIn, userMetadataRole, appMetadataRole) ==
    /\ res' = LoginResponse("express", signIn, userMetadataRole, appMetadataRole)
    /\ UNCHANGED <<crudVars, wrapperVars, clientVars, memory, surveys, surveyResponses, rewardItems,
                   nextRewardItemId>>

\* POST /api/auth/login of api/index.ts.
HandlerLogin(signIn, userMetadataRole, appMetadataRole) ==
    /\ res' = LoginResponse("serverless", signIn, userMetadataRole, appMetadataRole)
    /\ UNCHANGED <<crudVars, wrapperVars, clientVars, memory, surveys, surveyResponses, rewardItems,
                   nextRewardItemId>>

\* POST to the serverless auth function.
AuthHandlerLogin(signIn, userMetadataRole, appMetadataRole) ==
    /\ res' = LoginResponse("auth", signIn, userMetadataRole, appMetadataRole)
    /\ UNCHANGED <<crudVars, wrapperVars, clientVars, memory, surveys, surveyResponses, rewardItems,
                   nextRewardItemId>>

(***************************************************************************)
(* The serverless analytics and dashboard functions.  Both check the token *)
(* themselves and answer 401 to an absent and to a rejected token alike.   *)
(* A Supabase query that fails does not throw: it resolves to an object    *)
(* whose data (or count) is null and whose error is set.                   *)
(***************************************************************************)
\* authenticateToken of api/analytics.ts and of the dashboard function.
FunctionAuthError(token) ==
    IF token = "none" THEN "Access token required"
    ELSE IF token = "invalid" THEN "Invalid token"
    ELSE ""

\* The event name of each row of checkins joined with events.
CheckinRows == { <<>>, <<StrA>>, <<StrA, StrB, StrB>> }

\* api/analytics.ts, checkins-by-event: rows are grouped by event name and
\* sorted by count, largest first; the error of the query is not read.
CheckinsByEvent(dbFails, checkins) ==
    IF dbFails THEN <<>>
    ELSE SortByCountDesc(ObjectEntries(CountAnswers(checkins)))

\* The response together with whether the query behind it failed.
WithFailure(response, dbFails) ==
    [f \in DOMAIN response \cup {"dbFailed"} |->
        IF f = "dbFailed" THEN dbFails ELSE response[f]]

AnalyticsEndpoints == {"checkins-by-event", "no-such-endpoint"}

\* The handler of api/analytics.ts on the checkins-by-event endpoint and on
\* a URL that names no endpoint.
AnalyticsFunction(token, endpoint, dbFails, checkins) ==
    LET error == FunctionAuthError(token)
    IN  IF error # ""
        THEN Answer(Response("analytics", endpoint, token, 0, FALSE, 401, Message(error), {}))
        ELSE IF endpoint = "checkins-by-event"
        THEN Answer(WithFailure(Response("analytics", endpoint, token, 0, FALSE, 200,
                                         [kind |-> "series",
                                          rows |-> CheckinsByEvent(dbFails, checkins)],
                                         {"select checkins"}),
                                dbFails))
        ELSE Answer(Response("analytics", endpoint, token, 0, FALSE, 404,
                             Message("Analytics endpoint not found"), {}))

\* What the four count queries of the dashboard find when they work.
StatsCounts ==
    [totalCheckins |-> 2, activeEvents |-> 1, surveyResponses |-> Len(surveyResponses),
     rewardsRedeemed |-> 1]

\* count || 0 for each of the four counts; a failed query leaves count null.
StatsResult(dbFails) ==
    [kind |-> "stats",
     totalCheckins |-> IF dbFails THEN 0 ELSE StatsCounts.totalCheckins,
     activeEvents |-> IF dbFails THEN 0 ELSE StatsCounts.activeEvents,
     surveyResponses |-> IF dbFails THEN 0 ELSE StatsCounts.surveyResponses,
     rewardsRedeemed |-> IF dbFails THEN 0 ELSE StatsCounts.rewardsRedeemed]

\* The dashboard function on the stats endpoint.
DashboardStatsFunction(token, dbFails) ==
    LET route == "GET /api/dashboard/stats"
        error == FunctionAuthError(token)
    IN  IF error # ""
        THEN Answer(Response("dashboard", route, token, 0, FALSE, 401, Message(error), {}))
        ELSE Answer(WithFailure(Response("dashboard", route, token, 0, FALSE, 200,
                                         StatsResult(dbFails),
                                         {"select checkins", "select events",
                                          "select survey_responses",
                                          "select reward_redemptions"}),
                                dbFails))

\* GET /api/dashboard/stats of the Express router; storage.getDashboardStats
\* awaits drizzle queries, which throw when they fail.
ExpressDashboardStats(token, dbFails) ==
    LET route == "GET /api/dashboard/stats"
        auth == AuthenticateToken(token)
    IN  IF auth # 0
        THEN Answer(ExpressRejected(route, token, 0, auth))
        ELSE IF dbFails
        THEN Answer(WithFailure(Response("express", route, token, 0, FALSE, 500,
                                         Message("Failed to fetch dashboard stats"),
                                         {"select checkins"}),
                                dbFails))
        ELSE Answer(WithFailure(Response("express", route, token, 0, FALSE, 200,
                                         StatsResult(FALSE),
                                         {"select checkins", "select events",
                                          "select survey_responses",
                                          "select reward_redemptions"}),
                                dbFails))

(***************************************************************************)
(* Recent activity.  The three queries return [name, createdAt] rows,      *)
(* newest first; createdAt = 0 stands for a null timestamp.                *)
(***************************************************************************)
Activity(type, description, timestamp, icon) ==
    [type |-> type, description |-> description, timestamp |-> timestamp, icon |-> icon]

\* Timestamp of the moment of the request, later than every stored one.
Now == 9

FeedRow(name, createdAt) == [name |-> name, createdAt |-> createdAt]

RECURSIVE PushActivities(_, _, _, _)
\* rows.forEach(row => { if (row.createdAt) activities.push({...}) })
PushActivities(rows, type, prefix, icon) ==
    IF rows = <<>> THEN <<>>
    ELSE (IF Head(rows).createdAt # 0
          THEN <<Activity(type, <<prefix, Head(rows).name>>, Head(rows).createdAt, icon)>>
          ELSE <<>>)
         \o PushActivities(Tail(rows), type, prefix, icon)

\* Position at which a stable sort by (b.timestamp - a.timestamp) places e.
InsertByTimestampDesc(sorted, e) ==
    LET k == Cardinality({i \in 1..Len(sorted) : sorted[i].timestamp >= e.timestamp})
    IN  SubSeq(sorted, 1, k) \o <<e>> \o SubSeq(sorted, k + 1, Len(sorted))

RECURSIVE SortByTimestampDesc(_)
SortByTimestampDesc(as) ==
    IF as = <<>> THEN <<>>
    ELSE InsertByTimestampDesc(SortByTimestampDesc(SubSeq(as, 1, Len(as) - 1)), as[Len(as)])

FeedLimit == 10

\* storage.getRecentActivity.  Its try block covers the three queries; the
\* catch returns one entry of type 'error' instead of rethrowing.
GetRecentActivity(dbFails, allEvents, allRewards, allSurveys) ==
    IF dbFails
    THEN <<Activity("error", <<"Error loading activities: ", "query failed">>, Now,
                    "calendar")>>
    ELSE LET activities ==
                 PushActivities(allEvents, "event", "New event created: ", "calendar")
                 \o PushActivities(allRewards, "reward", "New reward added: ", "gift")
                 \o PushActivities(allSurveys, "survey", "New survey created: ", "vote")
             sortedActivities == SliceFirst(SortByTimestampDesc(activities), FeedLimit)
         IN  IF Len(sortedActivities) = 0
             THEN <<Activity("event",
                             <<"Sample event for testing - no real data found", "">>,
                             Now, "calendar")>>
             ELSE sortedActivities

\* GET /api/dashboard/recent-activity of the Express router.
ExpressRecentActivity(token, dbFails, allEvents, allRewards, allSurveys) ==
    LET route == "GET /api/dashboard/recent-activity"
        auth == AuthenticateToken(token)
    IN  IF auth # 0
        THEN Answer(ExpressRejected(route, token, 0, auth))
        ELSE Answer(WithFailure(Response("express", route, token, 0, FALSE, 200,
                                         [kind |-> "activities",
                                          items |-> GetRecentActivity(dbFails, allEvents,
                                                                      allRewards,
                                                                      allSurveys)],
                                         {"select events"}
                                         \cup (IF dbFails THEN {}
                                               ELSE {"select reward_items",
                                                     "select surveys"})),
                                dbFails))

(***************************************************************************)
(* Specification of the routes: one business, one event, one survey with   *)
(* one response and one reward item are stored, and requests to read, to   *)
(* create and to update arrive at the Express router and at the serverless *)
(* functions.                                                              *)
(***************************************************************************)
RouteIds == 1..(MaxEntities + 1)

SurveyBodies == [kind : BodyKinds, questions : {QArray(<<QRating>>)}]

InitRoutes ==
    /\ surveys = OneSurvey(1, QArray(<<QMultipleChoice>>))
    /\ surveyResponses =
           <<[id |-> 1, surveyId |-> 1, responses |-> Payload("object", Answers1(StrA))]>>
    /\ rewardItems = [i \in {1} |-> RewardItem(1, "coffee")]
    /\ nextRewardItemId = 2
    /\ businesses = [i \in {1} |-> Business(1, OldName)]
    /\ events = [i \in {1} |-> Event(1, OldName, NoImage)]
    /\ nextId = [t \in {"businesses", "events", "surveys"} |-> 2]
    /\ res = NoResponse
    /\ WrapperInit
    /\ ClientInit
    /\ MemoryInit

NextRoutes ==
    \/ \E t \in Tokens, id \in RouteIds : ExpressGetBusiness(t, id)
    \/ \E t \in Tokens, b \in EntityBodies : ExpressCreateBusiness(t, b)
    \/ \E t \in Tokens, id \in RouteIds, b \in EntityBodies : ExpressUpdateBusiness(t, id, b)
    \/ \E t \in Tokens, id \in RouteIds : ExpressGetEvent(t, id)
    \/ \E t \in Tokens, b \in EntityBodies : ExpressCreateEvent(t, b, "none")
    \/ \E t \in Tokens, id \in RouteIds, b \in EntityBodies : ExpressUpdateEvent(t, id, b)
    \/ \E t \in Tokens, id \in RouteIds : ExpressGetSurvey(t, id)
    \/ \E t \in Tokens, b \in SurveyBodies : ExpressCreateSurvey(t, b)
    \/ \E t \in Tokens, id \in RouteIds, b \in SurveyBodies : ExpressUpdateSurvey(t, id, b)
    \/ \E t \in Tokens, id \in RouteIds : ExpressGetRewardItem(t, id)
    \/ \E t \in Tokens, id \in RouteIds, b \in RewardBodies : ExpressUpdateRewardItem(t, id, b)
    \/ \E id \in RouteIds : HandlerGetBusiness("none", id, FALSE)
    \/ HandlerGetBusiness("none", 0, TRUE)
    \/ \E b \in EntityBodies : HandlerCreateBusiness("none", b)
    \/ \E id \in RouteIds, b \in EntityBodies : HandlerUpdateBusiness("none", id, FALSE, b)
    \/ \E id \in RouteIds : HandlerGetEvent("none", id, FALSE)
    \/ \E b \in EntityBodies : HandlerCreateEvent("none", b)
    \/ \E id \in RouteIds, b \in EntityBodies : HandlerUpdateEvent("none", id, FALSE, b)
    \/ \E id \in RouteIds : HandlerGetSurvey("none", id, FALSE)
    \/ \E b \in SurveyBodies : HandlerCreateSurvey("none", b)
    \/ \E id \in RouteIds, b \in SurveyBodies : HandlerUpdateSurvey("none", id, FALSE, b)
    \/ \E id \in RouteIds : HandlerGetRewardItem("none", id, FALSE)
    \/ \E id \in RouteIds, b \in RewardBodies : HandlerUpdateRewardItem("none", id, FALSE, b)
    \/ \E t \in Tokens, e \in AnalyticsEndpoints : AnalyticsFunction(t, e, FALSE, <<StrA>>)
    \/ \E t \in Tokens : DashboardStatsFunction(t, FALSE)

SpecRoutes == InitRoutes /\ [][NextRoutes]_vars

(***************************************************************************)
(* Specification of the stateless endpoints: login on the three stacks,    *)
(* the analytics and dashboard functions and the dashboard routes of the   *)
(* Express router, with queries that work and queries that fail.           *)
(***************************************************************************)
FeedInputs ==
    { [events |-> <<>>, rewards |-> <<>>, surveys |-> <<>>],
      [events |-> <<FeedRow("fair", 3), FeedRow("gala", 0)>>,
       rewards |-> <<FeedRow("mug", 5)>>,
       surveys |-> <<FeedRow("poll", 3)>>] }

InitEndpoints ==
    /\ surveys = AuthSurveys
    /\ surveyResponses = <<>>
    /\ rewardItems = EmptyTable
    /\ nextRewardItemId = 1
    /\ res = NoResponse
    /\ NoCrudTables
    /\ WrapperInit
    /\ ClientInit
    /\ MemoryInit

NextEndpoints ==
    \/ \E s \in SignInOutcomes, um \in Roles, am \in Roles : ExpressLogin(s, um, am)
    \/ \E s \in SignInOutcomes, um \in Roles, am \in Roles : HandlerLogin(s, um, am)
    \/ \E s \in SignInOutcomes, um \in Roles, am \in Roles : AuthHandlerLogin(s, um, am)
    \/ \E t \in Tokens, e \in AnalyticsEndpoints, f \in BOOLEAN, c \in CheckinRows :
          AnalyticsFunction(t, e, f, c)
    \/ \E t \in Tokens, f \in BOOLEAN : DashboardStatsFunction(t, f)
    \/ \E t \in Tokens, f \in BOOLEAN : ExpressDashboardStats(t, f)
    \/ \E t \in Tokens, f \in BOOLEAN, i \in FeedInputs :
          ExpressRecentActivity(t, f, i.events, i.rewards, i.surveys)
    \/ InsertResponse(1, Payload("object", Answers1(StrA)), MaxResponses)

SpecEndpoints == InitEndpoints /\ [][NextEndpoints]_vars

StoredTables == <<surveys, surveyResponses, rewardItems, businesses, events>>

\* The routes that sit behind authenticateToken: every route of the Express
\* router except login, and the analytics and dashboard functions.
IsProtected(r) ==
    /\ r.stack \in {"express", "analytics", "dashboard"}
    /\ r.route # "POST /api/auth/login"

\* C11: a request to a protected route that carries no Authorization token
\* is answered with HTTP 401 and the route's handler is not run: it issues
\* no statement against the database and no stored table changes.
C11_NoTokenIs401 ==
    [][(IsProtected(res') /\ res'.token = "none") =>
           /\ res'.status = 401
           /\ res'.body = Message("Access token required")
           /\ res'.db = {}
           /\ UNCHANGED StoredTables]_vars

\* A PUT without a token on a stored business was answered 401.
C11_Witness ==
    /\ res.stack = "express"
    /\ res.route = "PUT /api/businesses/:id"
    /\ res.token = "none"
    /\ res.id \in DOMAIN businesses
    /\ res.status = 401

IsLogin == res.route = "POST /api/auth/login"

CredentialsFailed == res.login.signIn \in {"authError", "noUser"}

CredentialsOk == res.login.signIn = "user"

LoginRole == UserRole(res.login.userMetadataRole, res.login.appMetadataRole)

IssuesToken == res.body.kind = "login"

\* C12: login issues a JWT only when the credential check succeeds and the
\* user's role is "admin"; failed credentials yield 401 whatever the role
\* metadata says, valid credentials with any other role yield 403, and in
\* neither case is a token returned.
C12_LoginIssuesTokenOnlyToAdmin ==
    IsLogin =>
        /\ IssuesToken => (CredentialsOk /\ LoginRole = "admin" /\ res.status = 200)
        /\ CredentialsFailed => (res.status = 401 /\ ~IssuesToken)
        /\ (CredentialsOk /\ LoginRole # "admin") => (res.status = 403 /\ ~IssuesToken)

\* Credentials of an account whose metadata says "admin" failed: 401.
C12_Witness ==
    /\ IsLogin
    /\ CredentialsFailed
    /\ res.login.userMetadataRole = "admin"
    /\ res.status = 401

\* The table that a by-id route reads or writes.
TableOf(route) ==
    IF route \in {"GET /api/businesses/:id", "PUT /api/businesses/:id"} THEN businesses
    ELSE IF route \in {"GET /api/events/:id", "PUT /api/events/:id"} THEN events
    ELSE IF route \in {"GET /api/surveys/:id", "PUT /api/surveys/:id"} THEN surveys
    ELSE rewardItems

GetByIdRoutes ==
    {"GET /api/businesses/:id", "GET /api/events/:id", "GET /api/surveys/:id",
     "GET /api/reward-items/:id"}

\* The request passed the token check of its stack, if the stack has one.
IsAdmitted == res.stack = "serverless" \/ (res.stack = "express" /\ res.token = "valid")

IsGetOfMissing ==
    /\ res.route \in GetByIdRoutes
    /\ IsAdmitted
    /\ ~res.nan
    /\ res.id \notin DOMAIN TableOf(res.route)

\* C13: for every entity type (business, event, survey, reward item), a GET
\* by id whose id matches no stored entity is answered with HTTP 404.
C13_GetOfMissingIs404 == IsGetOfMissing => res.status = 404

\* Supporting fact for C13: the claim holds on every route that implements
\* GET by id, that is everywhere except reward items in api/index.ts.
GetOfMissingIs404WhereImplemented ==
    (IsGetOfMissing /\ ~(res.stack = "serverless" /\ res.route = "GET /api/reward-items/:id"))
        => res.status = 404

ValidBodies == {b \in EntityBodies : SchemaAccepts(b)}

ValidSurveyBodies == {b \in SurveyBodies : SchemaAccepts(b)}

ValidRewardBodies == {b \in RewardBodies : b.valid}

\* The step is a PUT of the Express router, with a valid token and a
\* schema-valid body, on an id that matches no stored entity.
ExpressPutOfMissing ==
    \E id \in RouteIds :
        \/ /\ id \notin DOMAIN businesses
           /\ \E b \in ValidBodies : ExpressUpdateBusiness("valid", id, b)
        \/ /\ id \notin DOMAIN events
           /\ \E b \in ValidBodies : ExpressUpdateEvent("valid", id, b)
        \/ /\ id \notin DOMAIN surveys
           /\ \E b \in ValidSurveyBodies : ExpressUpdateSurvey("valid", id, b)
        \/ /\ id \notin DOMAIN rewardItems
           /\ \E b \in ValidRewardBodies : ExpressUpdateRewardItem("valid", id, b)

\* The same request sent to api/index.ts.
HandlerPutOfMissing ==
    \E id \in RouteIds, t \in Tokens :
        \/ /\ id \notin DOMAIN businesses
           /\ \E b \in ValidBodies : HandlerUpdateBusiness(t, id, FALSE, b)
        \/ /\ id \notin DOMAIN events
           /\ \E b \in ValidBodies : HandlerUpdateEvent(t, id, FALSE, b)
        \/ /\ id \notin DOMAIN surveys
           /\ \E b \in ValidSurveyBodies : HandlerUpdateSurvey(t, id, FALSE, b)
        \/ /\ id \notin DOMAIN rewardItems
           /\ \E b \in ValidRewardBodies : HandlerUpdateRewardItem(t, id, FALSE, b)

\* C14: for every entity type, a PUT with a schema-valid body on an id that
\* matches no stored entity is answered with HTTP 404, in the Express router
\* and in the serverless handler alike, and creates no entity.
C14_PutOfMissingIs404 ==
    [][(ExpressPutOfMissing \/ HandlerPutOfMissing) =>
           (res'.status = 404 /\ UNCHANGED StoredTables)]_vars

\* Supporting fact for C14: the serverless half of the claim.
HandlerPutOfMissingIs404 ==
    [][HandlerPutOfMissing => (res'.status = 404 /\ UNCHANGED StoredTables)]_vars

\* Supporting fact for C14: what the Express router answers instead.  No
\* entity is created; businesses answer 200 with an empty body, the other
\* three entity types answer 400.
ExpressPutOfMissingIs200Or400 ==
    [][ExpressPutOfMissing =>
           /\ UNCHANGED StoredTables
           /\ IF res'.route = "PUT /api/businesses/:id"
              THEN res'.status = 200 /\ res'.body = EmptyBody
              ELSE res'.status = 400]_vars

InvalidBodies == {b \in EntityBodies : ~SchemaAccepts(b)}

InvalidSurveyBodies == {b \in SurveyBodies : ~SchemaAccepts(b)}

InvalidRewardBodies == {b \in RewardBodies : ~b.valid}

\* The step is a POST or PUT of the Express router, with a valid token,
\* whose body fails the schema.
ExpressInvalidBody ==
    \/ \E b \in InvalidBodies :
          \/ ExpressCreateBusiness("valid", b)
          \/ ExpressCreateEvent("valid", b, "none")
          \/ \E id \in RouteIds : ExpressUpdateBusiness("valid", id, b)
          \/ \E id \in RouteIds : ExpressUpdateEvent("valid", id, b)
    \/ \E b \in InvalidSurveyBodies :
          \/ ExpressCreateSurvey("valid", b)
          \/ \E id \in RouteIds : ExpressUpdateSurvey("valid", id, b)
    \/ \E b \in InvalidRewardBodies, id \in RouteIds :
          ExpressUpdateRewardItem("valid", id, b)

\* The same request sent to api/index.ts.
HandlerInvalidBody ==
    \/ \E b \in InvalidBodies :
          \/ HandlerCreateBusiness("none", b)
          \/ HandlerCreateEvent("none", b)
          \/ \E id \in RouteIds : HandlerUpdateBusiness("none", id, FALSE, b)
          \/ \E id \in RouteIds : HandlerUpdateEvent("none", id, FALSE, b)
    \/ \E b \in InvalidSurveyBodies :
          \/ HandlerCreateSurvey("none", b)
          \/ \E id \in RouteIds : HandlerUpdateSurvey("none", id, FALSE, b)
    \/ \E b \in InvalidRewardBodies, id \in RouteIds :
          HandlerUpdateRewardItem("none", id, FALSE, b)

\* C15: a POST or PUT whose body fails schema validation is answered with
\* HTTP 400 with a message, and the stored entities are left unchanged.
C15_InvalidBodyIs400 ==
    [][(ExpressInvalidBody \/ HandlerInvalidBody) =>
           /\ res'.status = 400
           /\ res'.body.kind = "message"
           /\ UNCHANGED StoredTables]_vars

\* Supporting fact for C15: the Express half of the claim, where the body
\* is parsed by the schema before storage is called.
ExpressInvalidBodyIs400 ==
    [][ExpressInvalidBody =>
           /\ res'.status = 400
           /\ res'.body.kind = "message"
           /\ res'.db = {}
           /\ UNCHANGED StoredTables]_vars

\* The query behind the response failed.
QueryFailed == "dbFailed" \in DOMAIN res /\ res.dbFailed

\* C16: an unexpected failure of a database query during any endpoint is
\* surfaced to the caller as HTTP 500 with a message; no endpoint answers
\* 200 with substitute or placeholder data when its query failed.
C16_QueryFailureIs500 ==
    QueryFailed => (res.status = 500 /\ res.body.kind = "message")

\* Supporting fact for C16: the routes whose storage method lets the error
\* of the query propagate do answer 500.
StatsQueryFailureIs500 ==
    (QueryFailed /\ res.stack = "express" /\ res.route = "GET /api/dashboard/stats")
        => (res.status = 500 /\ res.body.kind = "message")

\* Supporting fact for C16: what the recent-activity route answers when its
\* query failed.
RecentActivityFailureIs200 ==
    (QueryFailed /\ res.route = "GET /api/dashboard/recent-activity")
        => /\ res.status = 200
           /\ Len(res.body.items) = 1
           /\ res.body.items[1].type = "error"

(***************************************************************************)
(* Specification of survey edits: responses keep arriving for survey 1     *)
(* while its question list is replaced through PUT /api/surveys/:id        *)
(* (reordered, shortened, extended), and analytics are requested.          *)
(***************************************************************************)
OriginalQuestions == <<QMultipleChoice, QCheckbox>>

EditQuestionLists ==
    { OriginalQuestions,
      <<QCheckbox, QMultipleChoice>>,
      <<QCheckbox>>,
      <<QRating, QMultipleChoice, QCheckbox>> }

EditBodies == [kind : {"valid"}, questions : {QArray(l) : l \in EditQuestionLists}]

EditPayloads ==
    { Payload("object", Answers2(StrA, StrAcommaB)),
      Payload("json", Answers1(StrB)),
      Payload("object", AnswersAt2(StrA)) }

InitEdit ==
    /\ surveys = OneSurvey(1, QArray(OriginalQuestions))
    /\ surveyResponses = <<>>
    /\ rewardItems = EmptyTable
    /\ nextRewardItemId = 1
    /\ res = NoResponse
    /\ NoCrudTables
    /\ WrapperInit
    /\ ClientInit
    /\ MemoryInit

NextEdit ==
    \/ \E p \in EditPayloads : InsertResponse(1, p, MaxResponses)
    \/ \E b \in EditBodies : ExpressUpdateSurvey("valid", 1, b)
    \/ \E b \in EditBodies : HandlerUpdateSurvey("valid", 1, FALSE, b)
    \/ ExpressSurveyAnalytics("valid", 1, FALSE)
    \/ HandlerSurveyAnalytics("valid", 1, FALSE)

SpecEdit == InitEdit /\ [][NextEdit]_vars

\* The keys of a stored row's answers (none when the payload does not parse).
KeysOf(i) ==
    LET r == surveyResponses[i].responses
    IN  IF r.kind = "badJson" THEN {} ELSE DOMAIN r.answers

\* C17: answers are attributed by position only.  Whatever edits the survey
\* went through, the analytics have one entry per question now stored, the
\* entry at position k carries the type of the question now at k and tallies
\* exactly the answers stored under key k in all responses of the survey;
\* an answer stored under a key greater than the number of questions is
\* reported by no entry (unless the same string is stored under that
\* entry's own key).
C17_AnswersAttributedByPosition ==
    IsAnalyticsSuccess =>
        /\ Len(Entries) = Len(StoredQuestions)
        /\ \A k \in 1..Len(Entries) :
              LET tokens == AllTokens(PositionKey(k), Entries[k].questionType)
              IN  /\ Entries[k].questionType = StoredQuestions[k].type
                  /\ \A j \in 1..Len(tokens) :
                        ReportedCount(Entries[k], tokens[j]) = Occurrences(tokens, tokens[j])
                  /\ \A j \in 1..Len(Entries[k].responses) :
                        /\ Entries[k].responses[j].count > 0
                        /\ Entries[k].responses[j].count =
                               Occurrences(tokens, Entries[k].responses[j].answer)
        /\ \A i \in StoredRows : \A key \in KeysOf(i) :
              (\A k \in 1..Len(Entries) : key # PositionKey(k)) =>
                  \A k \in 1..Len(Entries) :
                      ReportedCount(Entries[k], AnswerUnder(i, key)) =
                          Occurrences(AllTokens(PositionKey(k), Entries[k].questionType),
                                      AnswerUnder(i, key))

\* C17 witness: the survey was cut down to the checkbox question alone, a
\* response still holds "A,B" under key 2 and "A" under key 1, and the one
\* entry tallies the "A" that was given to the multiple-choice question.
C17_Witness ==
    /\ IsAnalyticsSuccess
    /\ StoredQuestions = <<QCheckbox>>
    /\ \E i \in StoredRows :
          /\ AnswerUnder(i, Str2) = StrAcommaB
          /\ AnswerUnder(i, Str1) = StrA
    /\ Len(Entries) = 1
    /\ ReportedCount(Entries[1], StrA) >= 1
    /\ ReportedCount(Entries[1], StrB) = 0

\* C18: the two implementations of survey analytics agree.  For every
\* stored survey and whatever responses are stored, getSurveyAnalytics of
\* the storage layer and the inline aggregation of api/index.ts return the
\* same totalResponses and the same questionAnalytics, and one fails
\* exactly when the other does.
C18_ImplementationsAgree ==
    \A id \in DOMAIN surveys :
        LET stored == GetSurveyAnalytics(id)
            inline == HandlerSurveyAnalyticsResponse("valid", id, FALSE)
        IN  IF stored.outcome = "return"
            THEN /\ inline.status = 200
                 /\ inline.body.totalResponses = stored.totalResponses
                 /\ inline.body.questionAnalytics = stored.questionAnalytics
            ELSE inline.status = 500

\* C18 witness: the serverless handler answered with an entry that tallies
\* at least two different answers, and the storage layer returns the same.
C18_Witness ==
    /\ IsAnalyticsSuccess
    /\ res.stack = "serverless"
    /\ \E k \in 1..Len(Entries) : Len(Entries[k].responses) >= 2
    /\ GetSurveyAnalytics(res.id).outcome = "return"
    /\ GetSurveyAnalytics(res.id).questionAnalytics = Entries
    /\ GetSurveyAnalytics(res.id).totalResponses = res.body.totalResponses

(***************************************************************************)
(* The Vercel wrapper of the Express app.  Its module state is the flag    *)
(* routesRegistered and routePromise, which is null or the promise that    *)
(* registerRoutes(app) returned: pending, fulfilled or rejected.  An       *)
(* invocation of handler runs until its next await; invocations interleave *)
(* at the awaits.  pc of an invocation: "idle" (not arrived), "awaitOwn"   *)
(* (line 22), "awaitShared" (line 25), "ready" (ensureRoutes returned),    *)
(* "failed" (ensureRoutes threw), "done" (answered).  saw records the      *)
(* state of routePromise when the invocation arrived.                      *)
(***************************************************************************)
OtherVars ==
    <<crudVars, surveys, surveyResponses, rewardItems, nextRewardItemId, res, clientVars,
      memory>>

IsSet_UnlessRejected(promise) == promise \notin {"null", "rejected"}

\* The truth value of routePromise in a condition: any promise object,
\* settled or not, is truthy; null is not.
IsSet(promise) == promise # "null"

EnsureRoutesBranch_FlagOnly(registered, promise) ==
    IF ~registered THEN "register"
    ELSE IF IsSet(promise) THEN "await"
    ELSE "return"

\* The branch that ensureRoutes takes.
EnsureRoutesBranch(registered, promise) ==
    IF ~registered /\ ~IsSet(promise) THEN "register"
    ELSE IF IsSet(promise) THEN "await"
    ELSE "return"

\* handler is invoked and runs ensureRoutes up to its await.
Enter(i) ==
    LET branch == EnsureRoutesBranch(routesRegistered, routePromise)
    IN  /\ invocations[i].pc = "idle"
        /\ IF branch = "register"
           THEN /\ routePromise' = "pending"
                /\ registerCalls' = registerCalls + 1
                /\ invocations' = [invocations EXCEPT
                                       ![i] = [pc |-> "awaitOwn", saw |-> routePromise,
                                               status |-> 0]]
           ELSE /\ invocations' = [invocations EXCEPT
                                       ![i] = [pc |-> IF branch = "await" THEN "awaitShared"
                                                      ELSE "ready",
                                               saw |-> routePromise, status |-> 0]]
                /\ UNCHANGED <<routePromise, registerCalls>>
        /\ UNCHANGED <<routesRegistered, OtherVars>>

\* The promise returned by registerRoutes(app) settles.
Settle(outcome) ==
    /\ routePromise = "pending"
    /\ routePromise' = outcome
    /\ UNCHANGED <<routesRegistered, registerCalls, invocations, OtherVars>>

\* The invocation that called registerRoutes resumes after line 22: it sets
\* the flag, or the await throws.
ResumeOwn(i) ==
    /\ invocations[i].pc = "awaitOwn"
    /\ routePromise \in {"fulfilled", "rejected"}
    /\ IF routePromise = "fulfilled"
       THEN /\ routesRegistered' = TRUE
            /\ invocations' = [invocations EXCEPT ![i].pc = "ready"]
       ELSE /\ invocations' = [invocations EXCEPT ![i].pc = "failed"]
            /\ UNCHANGED routesRegistered
    /\ UNCHANGED <<routePromise, registerCalls, OtherVars>>

\* An invocation that found a promise resumes after line 25.
ResumeShared(i) ==
    /\ invocations[i].pc = "awaitShared"
    /\ routePromise \in {"fulfilled", "rejected"}
    /\ invocations' = [invocations EXCEPT
                           ![i].pc = IF routePromise = "fulfilled" THEN "ready" ELSE "failed"]
    /\ UNCHANGED <<routesRegistered, routePromise, registerCalls, OtherVars>>

\* return app(req, res): the request is handed to the Express app.
Dispatch(i) ==
    /\ invocations[i].pc = "ready"
    /\ invocations' = [invocations EXCEPT ![i].pc = "done", ![i].status = 200]
    /\ UNCHANGED <<routesRegistered, routePromise, registerCalls, OtherVars>>

\* The catch of handler: res.status(500).json(...).
Fail(i) ==
    /\ invocations[i].pc = "failed"
    /\ invocations' = [invocations EXCEPT ![i].pc = "done", ![i].status = 500]
    /\ UNCHANGED <<routesRegistered, routePromise, registerCalls, OtherVars>>

InitWrapper ==
    /\ surveys = AuthSurveys
    /\ surveyResponses = <<>>
    /\ rewardItems = EmptyTable
    /\ nextRewardItemId = 1
    /\ res = NoResponse
    /\ NoCrudTables
    /\ WrapperInit
    /\ ClientInit
    /\ MemoryInit

NextWrapper ==
    \/ \E i \in Invocations : Enter(i)
    \/ \E o \in {"fulfilled", "rejected"} : Settle(o)
    \/ \E i \in Invocations : ResumeOwn(i)
    \/ \E i \in Invocations : ResumeShared(i)
    \/ \E i \in Invocations : Dispatch(i)
    \/ \E i \in Invocations : Fail(i)

SpecWrapper == InitWrapper /\ [][NextWrapper]_vars

\* The invocation has been, or is about to be, handed to the Express app.
IsDispatched(i) ==
    \/ invocations[i].pc = "ready"
    \/ invocations[i].pc = "done" /\ invocations[i].status = 200

\* C19: under any interleaving of concurrent invocations of the handler,
\* registerRoutes is invoked at most once per process, and no request is
\* dispatched to the Express app before that registration has completed.
C19_RegisterOnceBeforeDispatch ==
    /\ registerCalls <= 1
    /\ \A i \in Invocations : IsDispatched(i) => routePromise = "fulfilled"

\* C19 witness: one invocation arrived first, another while registration
\* was pending; both were dispatched and registerRoutes ran once.
C19_Witness ==
    /\ registerCalls = 1
    /\ \E i, j \in Invocations :
          /\ invocations[i].saw = "null"
          /\ invocations[j].saw = "pending"
          /\ invocations[i].status = 200
          /\ invocations[j].status = 200

\* C20: route registration has no retry.  Once registerRoutes has failed,
\* registerRoutes is not invoked again and every invocation that arrives
\* afterwards is answered with HTTP 500, never handed to the Express app.
C20_NoRetryAfterFailure ==
    routePromise = "rejected" =>
        /\ registerCalls = 1
        /\ \A i \in Invocations :
              invocations[i].saw = "rejected" =>
                  /\ invocations[i].pc \in {"awaitShared", "failed", "done"}
                  /\ invocations[i].pc = "done" => invocations[i].status = 500

\* C20 witness: two invocations arrived after the failure and both were
\* answered 500.
C20_Witness ==
    /\ routePromise = "rejected"
    /\ registerCalls = 1
    /\ \E i, j \in Invocations :
          /\ i # j
          /\ invocations[i].saw = "rejected" /\ invocations[i].status = 500
          /\ invocations[j].saw = "rejected" /\ invocations[j].status = 500

(***************************************************************************)
(* Tallies over answers that name members of Object.prototype.  A question *)
(* sees at most two distinct answers, so the comparator of the sort is     *)
(* consistent and the order of the entries is the same in every engine.    *)
(***************************************************************************)
TallySurveys ==
    { OneSurvey(1, QArray(<<QText, QCheckbox>>)),
      OneSurvey(1, QArray(<<QMultipleChoice, QRating>>)) }

TallyPayloads ==
    { Payload("object", Answers2(a, b)) : a \in {StrConstructor, StrA},
                                          b \in {StrProto, StrB} }

InitTally ==
    /\ surveys \in TallySurveys
    /\ surveyResponses = <<>>
    /\ rewardItems = EmptyTable
    /\ nextRewardItemId = 1
    /\ res = NoResponse
    /\ NoCrudTables
    /\ WrapperInit
    /\ ClientInit
    /\ MemoryInit

NextTally ==
    \/ \E p \in TallyPayloads : InsertResponse(1, p, MaxResponses)
    \/ ExpressSurveyAnalytics("valid", 1, FALSE)
    \/ HandlerSurveyAnalytics("valid", 1, FALSE)

SpecTally == InitTally /\ [][NextTally]_vars

\* The responses of one question satisfy the three conditions of C21.
TallyWellFormed(entry, totalResponses) ==
    /\ \A j \in 1..Len(entry.responses) :
          IsNumber(entry.responses[j].count) /\ entry.responses[j].count >= 1
    /\ \A i, j \in 1..Len(entry.responses) :
          entry.responses[i].answer = entry.responses[j].answer => i = j
    /\ entry.questionType # "checkbox" => SumCounts(entry.responses) <= totalResponses

\* C21: in every analytics result each responses entry has count >= 1, no
\* answer string appears twice within one question, and for every question
\* that is not of type checkbox the sum of its counts is at most
\* totalResponses.
C21_TallyWellFormed ==
    IsAnalyticsSuccess =>
        \A k \in 1..Len(Entries) : TallyWellFormed(Entries[k], res.body.totalResponses)

\* Some stored answer of the requested survey names a member of
\* Object.prototype.
SomeInheritedAnswer ==
    \E i \in StoredRows, key \in {Str1, Str2} :
        AnswerUnder(i, key) \in InheritedFunctionNames \cup {StrProto}

\* The three conditions hold when no stored answer names a member of
\* Object.prototype.
TallyWellFormedForOwnNames ==
    (IsAnalyticsSuccess /\ ~SomeInheritedAnswer) =>
        \A k \in 1..Len(Entries) : TallyWellFormed(Entries[k], res.body.totalResponses)

\* Two responses answered "constructor": one entry whose count is the text
\* of the function followed by "11".
ConstructorCountIsText ==
    /\ IsAnalyticsSuccess
    /\ \E k \in 1..Len(Entries) : \E j \in 1..Len(Entries[k].responses) :
          /\ Entries[k].responses[j].answer = StrConstructor
          /\ Entries[k].responses[j].count = PlusOne(FunctionPlusOne)

(***************************************************************************)
(* Aggregation over malformed stored data: questions values that are not a *)
(* list and response payloads that do not parse or miss an answer.         *)
(***************************************************************************)
MalformedQuestions ==
    { [kind |-> "badJson", list |-> <<>>],
      [kind |-> "jsonOther", list |-> <<>>],
      [kind |-> "other", list |-> <<>>] }

MalformedSurveys ==
    { OneSurvey(1, q) : q \in MalformedQuestions \cup {QArray(<<QMultipleChoice, QCheckbox>>)} }

MalformedPayloads ==
    { Payload("badJson", Answers0),
      Payload("object", Answers1(StrA)),
      Payload("json", Answers2(StrEmpty, StrAcommaB)),
      Payload("object", Answers2(StrA, StrB)) }

InitMalformed ==
    /\ surveys \in MalformedSurveys
    /\ surveyResponses = <<>>
    /\ rewardItems = EmptyTable
    /\ nextRewardItemId = 1
    /\ res = NoResponse
    /\ NoCrudTables
    /\ WrapperInit
    /\ ClientInit
    /\ MemoryInit

NextMalformed ==
    \/ \E p \in MalformedPayloads : InsertResponse(1, p, MaxResponses)
    \/ ExpressSurveyAnalytics("valid", 1, FALSE)
    \/ HandlerSurveyAnalytics("valid", 1, FALSE)

SpecMalformed == InitMalformed /\ [][NextMalformed]_vars

\* The stored questions value of the requested survey is not a list.
QuestionsNotAList ==
    /\ IsAnalyticsRequest
    /\ res.id \in DOMAIN surveys
    /\ surveys[res.id].questions.kind \in {"badJson", "jsonOther", "other"}

\* Every reported count is the number of tokens contributed by the rows that
\* parse and hold a non-empty answer under the key of the question.
OnlyAnsweringRowsTallied ==
    IsAnalyticsSuccess =>
        \A k \in 1..Len(Entries) :
            LET tokens == AllTokens(PositionKey(k), Entries[k].questionType)
            IN  /\ \A j \in 1..Len(Entries[k].responses) :
                      Entries[k].responses[j].count =
                          Occurrences(tokens, Entries[k].responses[j].answer)
                /\ SumCounts(Entries[k].responses) = Len(tokens)

\* C22: malformed stored data never aborts aggregation: a response whose
\* payload cannot be parsed, or that has no or an empty answer under the key
\* of a question, contributes to no tally of that question, and a survey
\* whose questions value cannot be parsed as a list yields a successful
\* result with an empty questionAnalytics.
C22_MalformedDataNeverAborts ==
    /\ (IsAnalyticsRequest /\ res.id \in DOMAIN surveys) => res.status = 200
    /\ OnlyAnsweringRowsTallied
    /\ QuestionsNotAList => (IsAnalyticsSuccess /\ Entries = <<>>)

\* Rows that do not parse or do not answer never abort and are not tallied.
MalformedRowsContributeNothing ==
    /\ (IsAnalyticsRequest /\ res.id \in DOMAIN surveys /\ ~QuestionsNotAList)
           => res.status = 200
    /\ OnlyAnsweringRowsTallied

\* A questions value that does not parse, or is neither a string nor an
\* array, yields a successful result without entries.
UnparseableQuestionsGiveNoEntries ==
    (QuestionsNotAList /\ surveys[res.id].questions.kind # "jsonOther")
        => (IsAnalyticsSuccess /\ Entries = <<>>)

\* A questions value that is a JSON string holding a non-array aborts the
\* aggregation: both stacks answer 500.
ParsedNonArrayAborts ==
    /\ QuestionsNotAList
    /\ surveys[res.id].questions.kind = "jsonOther"
    /\ res.status = 500

\* Three rows, one unparseable, one without an answer under key 2, one
\* answering both: the tally of question 2 counts one row only.
MalformedRowsSkipped ==
    /\ IsAnalyticsSuccess
    /\ Len(Entries) = 2
    /\ Cardinality(StoredRows) = 3
    /\ \E i \in StoredRows : surveyResponses[i].responses.kind = "badJson"
    /\ \E i \in StoredRows : surveyResponses[i].responses = Payload("object", Answers1(StrA))
    /\ SumCounts(Entries[2].responses) = 1

\* The string has no leading and no trailing whitespace.
IsTrimmed(a) == a = StrEmpty \/ (~IsSpace(a[1]) /\ ~IsSpace(a[Len(a)]))

\* C23: for a checkbox question each comma-separated token is trimmed of
\* surrounding whitespace before counting and empty tokens are not counted:
\* no responses entry of a checkbox question has an empty answer or an
\* answer with leading or trailing whitespace.
C23_CheckboxTokensTrimmed ==
    IsAnalyticsSuccess =>
        \A k \in 1..Len(Entries) :
            Entries[k].questionType = "checkbox" =>
                \A j \in 1..Len(Entries[k].responses) :
                    /\ Entries[k].responses[j].answer # StrEmpty
                    /\ IsTrimmed(Entries[k].responses[j].answer)

\* C23 witness: a stored checkbox answer " B,,A ,A" with padded and empty
\* tokens is reported as A with count 2 and B with count 1.
C23_Witness ==
    /\ IsAnalyticsSuccess
    /\ \E k \in 1..Len(Entries) :
          /\ Entries[k].questionType = "checkbox"
          /\ Cardinality({i \in StoredRows : AnswerUnder(i, PositionKey(k)) = StrMessy}) = 1
          /\ Cardinality({i \in StoredRows : AnswerUnder(i, PositionKey(k)) # StrEmpty}) = 1
          /\ Entries[k].responses = <<[answer |-> StrA, count |-> 2],
                                      [answer |-> StrB, count |-> 1]>>

(***************************************************************************)
(* Event creation with an image: every outcome of the upload and of the    *)
(* update that follows it.                                                 *)
(***************************************************************************)
InitUpload ==
    /\ surveys = AuthSurveys
    /\ surveyResponses = <<>>
    /\ rewardItems = EmptyTable
    /\ nextRewardItemId = 1
    /\ res = NoResponse
    /\ NoCrudTables
    /\ WrapperInit
    /\ ClientInit
    /\ MemoryInit

NextUpload ==
    \/ \E t \in Tokens, b \in EntityBodies, f \in Files : ExpressCreateEvent(t, b, f)
    \/ \E t \in Tokens, id \in RouteIds : ExpressGetEvent(t, id)
    \/ \E t \in Tokens, id \in RouteIds, b \in EntityBodies : ExpressUpdateEvent(t, id, b)

SpecUpload == InitUpload /\ [][NextUpload]_vars

\* C24: POST /api/events with an image inserts the event before the upload
\* is attempted and never rolls it back: when the upload or the following
\* image-URL update fails, the event stays stored and the response is still
\* 201, carrying the created event with an uploadWarning; the stored
\* imageUrl is non-null only after a successful upload.
C24_EventKeptWhenUploadFails ==
    [][\A b \in ValidBodies, f \in Files \ {"none"} :
          ExpressCreateEvent("valid", b, f) =>
              /\ res'.status = 201
              /\ res'.id \notin DOMAIN events
              /\ res'.id \in DOMAIN events'
              /\ \A i \in DOMAIN events : events'[i] = events[i]
              /\ f \in {"uploadFails", "updateFails"} =>
                    /\ events'[res'.id].imageUrl = NoImage
                    /\ res'.body = EventWithWarning(events'[res'.id])
              /\ events'[res'.id].imageUrl # NoImage => f = "image"
              /\ f = "image" => res'.body = EntityBody(events'[res'.id])]_vars

\* C24 witness: an event was created with an image whose URL update failed
\* after the upload; the answer is 201 with the warning and the event is
\* stored without an image URL.
C24_Witness ==
    /\ res.route = "POST /api/events"
    /\ res.status = 201
    /\ res.db = {"insert events", "update events"}
    /\ res.id \in DOMAIN events
    /\ res.body = EventWithWarning(events[res.id])
    /\ events[res.id].imageUrl = NoImage

(***************************************************************************)
(* DELETE routes.  survey_responses.survey_id references surveys.id        *)
(* without an ON DELETE action, so PostgreSQL refuses to delete a survey   *)
(* that a stored response refers to and the delete statement throws.       *)
(* rewards, surveys and checkins refer to businesses.id in the same way;   *)
(* those columns are not part of the stored rows here, and a DELETE of a   *)
(* business takes as input whether some row refers to the business.        *)
(***************************************************************************)
\* delete from <table> where id = :id
DeleteRow(table, id) == [i \in DOMAIN table \ {id} |-> table[i]]

\* Some row of survey_responses refers to the survey.
SurveyIsReferenced(id) ==
    \E i \in 1..Len(surveyResponses) : surveyResponses[i].surveyId = id

\* DELETE /api/businesses/:id of the Express router; storage.deleteBusiness.
ExpressDeleteBusiness(token, id, referenced) ==
    LET route == "DELETE /api/businesses/:id"
        auth == AuthenticateToken(token)
    IN  IF auth # 0
        THEN Answer(ExpressRejected(route, token, id, auth))
        ELSE IF referenced
        THEN /\ id \in DOMAIN businesses
             /\ Answer(Response("express", route, token, id, FALSE, 500,
                                Message("Failed to delete business"), {"delete businesses"}))
        ELSE /\ businesses' = DeleteRow(businesses, id)
             /\ res' = Response("express", route, token, id, FALSE, 204, [kind |-> "none"],
                                {"delete businesses"})
             /\ UNCHANGED <<events, nextId, wrapperVars, clientVars, memory, surveys, surveyResponses,
                            rewardItems, nextRewardItemId>>

\* DELETE /api/events/:id of the Express router; storage.deleteEvent.
ExpressDeleteEvent(token, id) ==
    LET route == "DELETE /api/events/:id"
        auth == AuthenticateToken(token)
    IN  IF auth # 0
        THEN Answer(ExpressRejected(route, token, id, auth))
        ELSE /\ events' = DeleteRow(events, id)
             /\ res' = Response("express", route, token, id, FALSE, 204, [kind |-> "none"],
                                {"delete events"})
             /\ UNCHANGED <<businesses, nextId, wrapperVars, clientVars, memory, surveys, surveyResponses,
                            rewardItems, nextRewardItemId>>

\* DELETE /api/surveys/:id of the Express router; storage.deleteSurvey.
ExpressDeleteSurvey(token, id) ==
    LET route == "DELETE /api/surveys/:id"
        auth == AuthenticateToken(token)
    IN  IF auth # 0
        THEN Answer(ExpressRejected(route, token, id, auth))
        ELSE IF SurveyIsReferenced(id)
        THEN Answer(Response("express", route, token, id, FALSE, 500,
                             Message("Failed to delete survey"), {"delete surveys"}))
        ELSE /\ surveys' = DeleteRow(surveys, id)
             /\ res' = Response("express", route, token, id, FALSE, 204, [kind |-> "none"],
                                {"delete surveys"})
             /\ UNCHANGED <<crudVars, wrapperVars, clientVars, memory, surveyResponses, rewardItems,
                            nextRewardItemId>>

\* api/index.ts lines 720-729 and 757-765: DELETE /api/businesses/:id.
HandlerDeleteBusiness(token, id, nan, referenced) ==
    LET route == "DELETE /api/businesses/:id"
    IN  IF nan
        THEN Answer(Response("serverless", route, token, id, nan, 400,
                             Message("Invalid business ID"), {}))
        ELSE IF referenced
        THEN /\ id \in DOMAIN businesses
             /\ Answer(Response("serverless", route, token, id, nan, 500,
                                Message("Failed to delete business"), {"delete businesses"}))
        ELSE /\ businesses' = DeleteRow(businesses, id)
             /\ res' = Response("serverless", route, token, id, nan, 204, [kind |-> "none"],
                                {"delete businesses"})
             /\ UNCHANGED <<events, nextId, wrapperVars, clientVars, memory, surveys, surveyResponses,
                            rewardItems, nextRewardItemId>>

\* api/index.ts lines 590-599 and 627-635: DELETE /api/events/:id.
HandlerDeleteEvent(token, id, nan) ==
    LET route == "DELETE /api/events/:id"
    IN  IF nan
        THEN Answer(Response("serverless", route, token, id, nan, 400,
                             Message("Invalid event ID"), {}))
        ELSE /\ events' = DeleteRow(events, id)
             /\ res' = Response("serverless", route, token, id, nan, 204, [kind |-> "none"],
                                {"delete events"})
             /\ UNCHANGED <<businesses, nextId, wrapperVars, clientVars, memory, surveys, surveyResponses,
                            rewardItems, nextRewardItemId>>

\* api/index.ts lines 655-664 and 692-700: DELETE /api/surveys/:id.
HandlerDeleteSurvey(token, id, nan) ==
    LET route == "DELETE /api/surveys/:id"
    IN  IF nan
        THEN Answer(Response("serverless", route, token, id, nan, 400,
                             Message("Invalid survey ID"), {}))
        ELSE IF SurveyIsReferenced(id)
        THEN Answer(Response("serverless", route, token, id, nan, 500,
                             Message("Failed to delete survey"), {"delete surveys"}))
        ELSE /\ surveys' = DeleteRow(surveys, id)
             /\ res' = Response("serverless", route, token, id, nan, 204, [kind |-> "none"],
                                {"delete surveys"})
             /\ UNCHANGED <<crudVars, wrapperVars, clientVars, memory, surveyResponses, rewardItems,
                            nextRewardItemId>>

(***************************************************************************)
(* Specification of the DELETE routes of both stacks.  Survey 1 has a      *)
(* stored response, survey 2 has none.                                     *)
(***************************************************************************)
InitDelete ==
    /\ surveys = TwoSurveys(QArray(<<QMultipleChoice>>), QArray(<<QRating>>))
    /\ surveyResponses =
           <<[id |-> 1, surveyId |-> 1, responses |-> Payload("object", Answers1(StrA))]>>
    /\ rewardItems = [i \in {1} |-> RewardItem(1, "coffee")]
    /\ nextRewardItemId = 2
    /\ businesses = [i \in {1, 2} |-> Business(i, OldName)]
    /\ events = [i \in {1, 2} |-> Event(i, OldName, NoImage)]
    /\ nextId = [t \in {"businesses", "events", "surveys"} |-> 3]
    /\ res = NoResponse
    /\ WrapperInit
    /\ ClientInit
    /\ MemoryInit

NextDelete ==
    \/ \E t \in Tokens, id \in RouteIds, r \in BOOLEAN : ExpressDeleteBusiness(t, id, r)
    \/ \E t \in Tokens, id \in RouteIds : ExpressDeleteEvent(t, id)
    \/ \E t \in Tokens, id \in RouteIds : ExpressDeleteSurvey(t, id)
    \/ \E t \in Tokens, id \in RouteIds : ExpressDeleteRewardItem(t, id)
    \/ \E id \in RouteIds, r \in BOOLEAN : HandlerDeleteBusiness("none", id, FALSE, r)
    \/ \E id \in RouteIds : HandlerDeleteEvent("none", id, FALSE)
    \/ \E id \in RouteIds : HandlerDeleteSurvey("none", id, FALSE)
    \/ \E id \in RouteIds : HandlerDeleteRewardItem("none", id, FALSE)
    \/ HandlerDeleteEvent("none", 0, TRUE)

SpecDelete == InitDelete /\ [][NextDelete]_vars

DeleteRoutes ==
    {"DELETE /api/businesses/:id", "DELETE /api/events/:id", "DELETE /api/surveys/:id",
     "DELETE /api/reward-items/:id"}

\* new is old without the row of id; every other row is as it was.
RemovedOnly(old, new, id) ==
    /\ id \notin DOMAIN new
    /\ DOMAIN new = DOMAIN old \ {id}
    /\ \A i \in DOMAIN new : new[i] = old[i]

\* The step deleted id from the table of the route and left the other
\* tables alone.
DeleteTookEffect ==
    /\ IF res'.route = "DELETE /api/businesses/:id"
       THEN RemovedOnly(businesses, businesses', res'.id) ELSE businesses' = businesses
    /\ IF res'.route = "DELETE /api/events/:id"
       THEN RemovedOnly(events, events', res'.id) ELSE events' = events
    /\ IF res'.route = "DELETE /api/surveys/:id"
       THEN RemovedOnly(surveys, surveys', res'.id) ELSE surveys' = surveys
    /\ IF res'.route = "DELETE /api/reward-items/:id"
       THEN RemovedOnly(rewardItems, rewardItems', res'.id) ELSE rewardItems' = rewardItems
    /\ surveyResponses' = surveyResponses

\* The step answered a DELETE that passed the token check of its stack and
\* carried a numeric id.
IsDeleteStep ==
    /\ res'.route \in DeleteRoutes
    /\ res'.stack = "serverless" \/ (res'.stack = "express" /\ res'.token = "valid")
    /\ ~res'.nan

\* C25: DELETE on an entity id is idempotent: it answers 204 whether or not
\* an entity with that id exists, afterwards no entity with that id exists,
\* and every entity with a different id is left unchanged.
C25_DeleteIsIdempotent ==
    [][IsDeleteStep => (res'.status = 204 /\ DeleteTookEffect)]_vars

\* A DELETE is answered 204 or 500; with 204 it took effect, with 500 no
\* table changed.
DeleteIs204Or500 ==
    [][IsDeleteStep =>
          \/ res'.status = 204 /\ DeleteTookEffect
          \/ res'.status = 500 /\ UNCHANGED StoredTables]_vars

\* The survey that a stored response refers to cannot be deleted: the
\* answer is 500 and the survey is still stored.
ReferencedSurveyNotDeleted ==
    /\ res.route = "DELETE /api/surveys/:id"
    /\ res.status = 500
    /\ res.id \in DOMAIN surveys
    /\ SurveyIsReferenced(res.id)

\* A DELETE of an id that is already gone is answered 204.
DeleteOfMissingIs204 ==
    /\ res.route = "DELETE /api/events/:id"
    /\ res.status = 204
    /\ DOMAIN events = {}

(***************************************************************************)
(* The client's AuthProvider and the token helpers of lib/supabase.        *)
(***************************************************************************)
UserIds == {1, 2}

User(id) == [id |-> id]

Jwt(id, exp) == [kind |-> "jwt", id |-> id, exp |-> exp]

MalformedToken == [kind |-> "malformed", id |-> 0, exp |-> 0]

\* The strings that login may be handed as token.
TokenStrings == {Jwt(id, exp) : id \in UserIds, exp \in 0..(MaxClock + 1)} \cup {MalformedToken}

\* isAuthenticated() of lib/supabase: a token is stored, its payload parses
\* and payload.exp > Date.now() / 1000.
IsAuthenticated == localStorage.kind = "jwt" /\ localStorage.exp > now

\* getUserFromToken(): the user named by the payload, null when there is no
\* token or the payload does not parse.
GetUserFromToken == IF localStorage.kind = "jwt" THEN User(localStorage.id) ELSE NoUser

ServerVars ==
    <<surveys, surveyResponses, rewardItems, nextRewardItemId, res, crudVars, wrapperVars,
      memory>>

\* The effect of AuthProvider, run once after it mounted.
CheckAuth ==
    /\ isLoading
    /\ IF IsAuthenticated
       THEN /\ user' = GetUserFromToken
            /\ UNCHANGED localStorage
       ELSE /\ localStorage' = NoToken
            /\ user' = NoUser
    /\ isLoading' = FALSE
    /\ UNCHANGED <<now, ServerVars>>

\* login(token, userData)
Login(token, userData) ==
    /\ ~isLoading
    /\ localStorage' = token
    /\ user' = userData
    /\ UNCHANGED <<isLoading, now, ServerVars>>

\* Variant of Logout that removes the token and keeps the user.
Logout_KeepsUser ==
    /\ ~isLoading
    /\ localStorage' = NoToken
    /\ UNCHANGED <<user, isLoading, now, ServerVars>>

\* logout()
Logout ==
    /\ ~isLoading
    /\ localStorage' = NoToken
    /\ user' = NoUser
    /\ UNCHANGED <<isLoading, now, ServerVars>>

\* The page is loaded again: AuthProvider mounts with its initial state and
\* localStorage is kept.
Reload ==
    /\ ~isLoading
    /\ user' = NoUser
    /\ isLoading' = TRUE
    /\ UNCHANGED <<localStorage, now, ServerVars>>

\* Time passes.
Tick ==
    /\ now < MaxClock
    /\ now' = now + 1
    /\ UNCHANGED <<localStorage, user, isLoading, ServerVars>>

InitClient ==
    /\ surveys = AuthSurveys
    /\ surveyResponses = <<>>
    /\ rewardItems = EmptyTable
    /\ nextRewardItemId = 1
    /\ res = NoResponse
    /\ NoCrudTables
    /\ WrapperInit
    /\ user = NoUser
    /\ isLoading = TRUE
    /\ now = 0
    /\ localStorage \in TokenStrings \cup {NoToken}
    /\ MemoryInit

NextClient ==
    \/ CheckAuth
    \/ \E t \in TokenStrings, u \in UserIds : Login(t, User(u))
    \/ Logout
    \/ Reload
    \/ Tick

SpecClient == InitClient /\ [][NextClient]_vars

\* The value of isAuthenticated in the context that AuthProvider provides.
ContextIsAuthenticated == user # NoUser

\* C26: after any sequence of mount-time check, login and logout, the
\* context reports isAuthenticated only if an auth_token is stored in
\* localStorage: login stores the token and sets the user, logout removes
\* the token and clears the user, and a mount-time check that finds a
\* missing, malformed or expired token removes it and leaves the user null.
C26_AuthenticatedOnlyWithToken ==
    /\ [](ContextIsAuthenticated => localStorage # NoToken)
    /\ [][/\ \A t \in TokenStrings, u \in UserIds :
                Login(t, User(u)) => (localStorage' = t /\ user' = User(u))
          /\ Logout => (localStorage' = NoToken /\ user' = NoUser)
          /\ (CheckAuth /\ (localStorage = NoToken \/ localStorage.kind = "malformed"
                            \/ localStorage.exp <= now))
                => (localStorage' = NoToken /\ user' = NoUser)]_vars

\* C26 witness: the context reports a signed-in user and a token is
\* stored, at a time when that token has already expired.
C26_Witness ==
    /\ ~isLoading
    /\ ContextIsAuthenticated
    /\ localStorage.kind = "jwt"
    /\ localStorage.exp <= now

\* A user signed in by the mount-time check from a stored token that is
\* still valid.
SignedInFromStoredToken ==
    /\ ~isLoading
    /\ now > 0
    /\ IsAuthenticated
    /\ user = GetUserFromToken

(***************************************************************************)
(* The recent-activity feed over stored rows.  A stored row of events,     *)
(* reward_items and surveys is [id, name, createdAt] here; createdAt = 0   *)
(* stands for a null timestamp.                                            *)
(***************************************************************************)
\* The position of createdAt under ORDER BY created_at DESC: PostgreSQL
\* places nulls first in a descending order.
DescKey(createdAt) == IF createdAt = 0 THEN Now + 1 ELSE createdAt

InsertByCreatedAtDesc(sorted, row) ==
    LET k == Cardinality({i \in 1..Len(sorted) :
                             DescKey(sorted[i].createdAt) >= DescKey(row.createdAt)})
    IN  SubSeq(sorted, 1, k) \o <<row>> \o SubSeq(sorted, k + 1, Len(sorted))

RECURSIVE OrderByCreatedAtDesc(_)
OrderByCreatedAtDesc(rows) ==
    IF rows = <<>> THEN <<>>
    ELSE InsertByCreatedAtDesc(OrderByCreatedAtDesc(SubSeq(rows, 1, Len(rows) - 1)),
                               rows[Len(rows)])

\* select name, created_at from <table> order by created_at desc limit n
SelectNewest(table, n) ==
    SliceFirst(OrderByCreatedAtDesc([i \in 1..Len(table) |->
                                        FeedRow(table[i].name, table[i].createdAt)]), n)

\* api/index.ts lines 186-263: GET /api/dashboard/recent-activity.  Each
\* query takes 5 rows; a failing query is answered 500.
HandlerRecentActivity(token, dbFails) ==
    LET route == "GET /api/dashboard/recent-activity"
        activities ==
            PushActivities(SelectNewest(events, 5), "event", "New event created: ",
                           "calendar")
            \o PushActivities(SelectNewest(rewardItems, 5), "reward", "New reward added: ",
                              "gift")
            \o PushActivities(SelectNewest(surveys, 5), "survey", "New survey created: ",
                              "vote")
    IN  IF dbFails
        THEN Answer(WithFailure(Response("serverless", route, token, 0, FALSE, 500,
                                         Message("Failed to fetch recent activity data"),
                                         {"select events"}), dbFails))
        ELSE Answer(WithFailure(Response("serverless", route, token, 0, FALSE, 200,
                                         [kind |-> "activities",
                                          items |-> SliceFirst(SortByTimestampDesc(activities),
                                                               FeedLimit)],
                                         {"select events", "select reward_items",
                                          "select surveys"}), dbFails))

\* The first n rows of a table, created at times 1, 2, ...; the row at
\* position nullAt has no creation timestamp.
FeedTable(n, nullAt) ==
    [i \in 1..n |-> [id |-> i, name |-> Digits[i + 1],
                     createdAt |-> IF i = nullAt THEN 0 ELSE i]]

InitFeed ==
    /\ events \in {FeedTable(n, 2) : n \in 0..MaxFeedRows}
    /\ rewardItems \in {FeedTable(n, 0) : n \in 0..MaxFeedRows}
    /\ surveys \in {FeedTable(n, 1) : n \in 0..MaxFeedRows}
    /\ surveyResponses = <<>>
    /\ nextRewardItemId = 1
    /\ businesses = EmptyTable
    /\ nextId = [t \in {"businesses", "events", "surveys"} |-> 1]
    /\ res = NoResponse
    /\ WrapperInit
    /\ ClientInit
    /\ MemoryInit

NextFeed ==
    \/ \E t \in Tokens, f \in BOOLEAN :
          ExpressRecentActivity(t, f, SelectNewest(events, 10), SelectNewest(rewardItems, 10),
                                SelectNewest(surveys, 10))
    \/ \E f \in BOOLEAN : HandlerRecentActivity("none", f)

SpecFeed == InitFeed /\ [][NextFeed]_vars

\* The last request got the feed.
IsFeed ==
    /\ res.route = "GET /api/dashboard/recent-activity"
    /\ res.status = 200
    /\ res.body.kind = "activities"

\* The feed entry is built from a row of the table that has a creation
\* timestamp.
BuiltFrom(item, table, type, prefix) ==
    \E i \in 1..Len(table) :
        /\ table[i].createdAt # 0
        /\ item.type = type
        /\ item.timestamp = table[i].createdAt
        /\ item.description = <<prefix, table[i].name>>

FeedWellFormed ==
    LET items == res.body.items
    IN  /\ Len(items) <= 10
        /\ \A j, k \in 1..Len(items) : j < k => items[j].timestamp >= items[k].timestamp
        /\ \A j \in 1..Len(items) :
              \/ BuiltFrom(items[j], events, "event", "New event created: ")
              \/ BuiltFrom(items[j], rewardItems, "reward", "New reward added: ")
              \/ BuiltFrom(items[j], surveys, "survey", "New survey created: ")

\* C27: the recent-activity feed returns at most 10 entries ordered by
\* timestamp from newest to oldest, built only from events, reward items and
\* surveys that have a creation timestamp.
C27_FeedFromStoredRows == IsFeed => FeedWellFormed

\* Some stored row has a creation timestamp.
SomeRowHasTimestamp ==
    \E table \in {events, rewardItems, surveys} :
        \E i \in 1..Len(table) : table[i].createdAt # 0

\* The feed is well formed on the serverless handler, and on the Express
\* router when its queries worked and some stored row has a timestamp.
FeedWellFormedOverRows ==
    (IsFeed /\ (res.stack = "serverless" \/ (~res.dbFailed /\ SomeRowHasTimestamp)))
        => FeedWellFormed

\* Nothing is stored and the Express router answers with one entry that no
\* row stands behind.
SampleEntryOverEmptyTables ==
    /\ IsFeed
    /\ res.stack = "express"
    /\ ~res.dbFailed
    /\ events = <<>> /\ rewardItems = <<>> /\ surveys = <<>>
    /\ Len(res.body.items) = 1

\* Thirteen rows have a timestamp and the feed holds the ten newest.
FeedCutAtTen ==
    /\ IsFeed
    /\ res.stack = "express"
    /\ Len(events) = 5 /\ Len(rewardItems) = 5 /\ Len(surveys) = 5
    /\ Len(res.body.items) = 10
    /\ res.body.items[1].timestamp = 5
    /\ res.body.items[10].timestamp = 2


(***************************************************************************)
(* MemoryStorage (memory-storage.ts): the in-memory stand-in of the        *)
(* database.  Five arrays and one counter nextId shared by all of them.    *)
(* Every method runs to completion without awaiting anything, so each is   *)
(* one step.  res records the method called and what it returned or threw. *)
(***************************************************************************)
MemoryKinds == {"user", "business", "event", "reward", "survey"}

\* users have no update and no delete method.
MutableKinds == MemoryKinds \ {"user"}

\* The private array that holds the records of a kind.
CollectionOf(kind) ==
    CASE kind = "user" -> "users"
      [] kind = "business" -> "businesses"
      [] kind = "event" -> "events"
      [] kind = "reward" -> "rewards"
      [] kind = "survey" -> "surveys"

MemoryIds(kind) == {memory[CollectionOf(kind)][i].id : i \in DOMAIN memory[CollectionOf(kind)]}

\* findIndex(x => x.id === id): the first index that matches, 0 for -1.
FindIndex(collection, id) ==
    IF \E i \in DOMAIN collection : collection[i].id = id
    THEN CHOOSE i \in DOMAIN collection :
            /\ collection[i].id = id
            /\ \A j \in DOMAIN collection : collection[j].id = id => i <= j
    ELSE 0

\* splice(index, 1)
Splice(collection, index) ==
    [i \in 1..(Len(collection) - 1) |-> IF i < index THEN collection[i] ELSE collection[i + 1]]

\* {...old, ...patch}: the fields of the patch replace those of the record.
Spread(old, patch) ==
    [f \in DOMAIN old \cup DOMAIN patch |-> IF f \in DOMAIN patch THEN patch[f] ELSE old[f]]

\* input.field || fallback: the fallback replaces a field that is absent
\* and also one that is present and falsy.
OrElse(input, field, fallback) ==
    IF field \in DOMAIN input /\ input[field] # FALSE THEN input[field] ELSE fallback

\* The object literal of createUser, createBusiness, createEvent,
\* createReward and createSurvey.
NewRecord(kind, id, input) ==
    IF kind \in FlaggedKinds
    THEN [id |-> id, kind |-> kind, name |-> input.name,
          active |-> OrElse(input, "active", TRUE)]
    ELSE [id |-> id, kind |-> kind, name |-> input.name]

\* What a caller passes to a create method: the active flag left out,
\* true, or false.
MemoryInputs(kind) ==
    IF kind \in FlaggedKinds
    THEN {[name |-> "new"], [name |-> "new", active |-> TRUE], [name |-> "new", active |-> FALSE]}
    ELSE {[name |-> "new"]}

\* What a caller passes to an update method (the routes strip any id).
MemoryPatches(kind) ==
    IF kind \in FlaggedKinds
    THEN {[name |-> "renamed"], [active |-> FALSE]}
    ELSE {[name |-> "renamed"]}

\* The ids update and delete are called with: a seeded business, the first
\* id a create can issue, and an id no record ever has.
MemoryProbeIds == {2, 7, 0}

MemoryResult(method, kind, id, outcome, input, record) ==
    [stack |-> "memory", route |-> method, kind |-> kind, id |-> id,
     outcome |-> outcome, input |-> input, record |-> record, status |-> 0]

NotFound == [message |-> "not found"]

\* createX(input): id: this.nextId++, push, return the new record.
MemoryCreate(kind, input) ==
    /\ memory.nextId <= MaxMemoryId
    /\ LET record == NewRecord(kind, memory.nextId, input)
           c == CollectionOf(kind)
       IN /\ memory' = [memory EXCEPT ![c] = Append(@, record), !.nextId = @ + 1]
          /\ res' = MemoryResult("create", kind, record.id, "returned", input, record)
    /\ UNCHANGED <<surveys, surveyResponses, rewardItems, nextRewardItemId,
                   crudVars, wrapperVars, clientVars>>

\* updateX(id, patch): throws when findIndex gives -1, else replaces the
\* record by the spread of the record and the patch and returns it.
MemoryUpdate_Upserts(kind, id, patch) ==
    LET c == CollectionOf(kind)
        index == FindIndex(memory[c], id)
    IN /\ IF index = 0
          THEN /\ memory' = [memory EXCEPT ![c] = Append(@, Spread([id |-> id, kind |-> kind], patch))]
               /\ res' = MemoryResult("update", kind, id, "returned", patch, NotFound)
          ELSE /\ memory' = [memory EXCEPT ![c][index] = Spread(@, patch)]
               /\ res' = MemoryResult("update", kind, id, "returned", patch,
                                      Spread(memory[c][index], patch))
       /\ UNCHANGED <<surveys, surveyResponses, rewardItems, nextRewardItemId,
                      crudVars, wrapperVars, clientVars>>

MemoryUpdate(kind, id, patch) ==
    LET c == CollectionOf(kind)
        index == FindIndex(memory[c], id)
    IN /\ IF index = 0
          THEN /\ memory' = memory
               /\ res' = MemoryResult("update", kind, id, "threw", patch, NotFound)
          ELSE /\ memory' = [memory EXCEPT ![c][index] = Spread(@, patch)]
               /\ res' = MemoryResult("update", kind, id, "returned", patch,
                                      Spread(memory[c][index], patch))
       /\ UNCHANGED <<surveys, surveyResponses, rewardItems, nextRewardItemId,
                      crudVars, wrapperVars, clientVars>>

\* deleteX(id): throws when findIndex gives -1, else splices the record out.
MemoryDelete(kind, id) ==
    LET c == CollectionOf(kind)
        index == FindIndex(memory[c], id)
    IN /\ IF index = 0
          THEN /\ memory' = memory
               /\ res' = MemoryResult("delete", kind, id, "threw", NotFound, NotFound)
          ELSE /\ memory' = [memory EXCEPT ![c] = Splice(@, index)]
               /\ res' = MemoryResult("delete", kind, id, "returned", NotFound, memory[c][index])
       /\ UNCHANGED <<surveys, surveyResponses, rewardItems, nextRewardItemId,
                      crudVars, wrapperVars, clientVars>>

InitMemory ==
    /\ surveys = <<>>
    /\ surveyResponses = <<>>
    /\ rewardItems = <<>>
    /\ nextRewardItemId = 1
    /\ res = NoResponse
    /\ businesses = EmptyTable
    /\ events = EmptyTable
    /\ nextId = [t \in {"businesses", "events", "surveys"} |-> 1]
    /\ WrapperInit
    /\ ClientInit
    /\ MemoryInit

NextMemory ==
    \/ \E kind \in MemoryKinds : \E input \in MemoryInputs(kind) : MemoryCreate(kind, input)
    \/ \E kind \in MutableKinds : \E id \in MemoryProbeIds :
          \E patch \in MemoryPatches(kind) : MemoryUpdate(kind, id, patch)
    \/ \E kind \in MutableKinds : \E id \in MemoryProbeIds : MemoryDelete(kind, id)

SpecMemory == InitMemory /\ [][NextMemory]_vars

\* The ids held by all five arrays together, with their multiplicity.
AllMemoryIds(m) ==
    LET all == m.users \o m.businesses \o m.events \o m.rewards \o m.surveys
    IN [i \in DOMAIN all |-> all[i].id]

NoSharedId(m) ==
    \A i, j \in DOMAIN AllMemoryIds(m) : AllMemoryIds(m)[i] = AllMemoryIds(m)[j] => i = j

IsMemoryStep == res'.stack = "memory" /\ <<memory, res>>' # <<memory, res>>

\* A create hands out an id above every id handed out before it.
CreateIssuesFreshId ==
    (IsMemoryStep /\ res'.route = "create")
        => /\ res'.record.id = memory.nextId
           /\ memory'.nextId > res'.record.id
           /\ \A i \in DOMAIN AllMemoryIds(memory) : AllMemoryIds(memory)[i] < res'.record.id
           /\ res'.record \in {memory'[CollectionOf(res'.kind)][i] :
                                  i \in DOMAIN memory'[CollectionOf(res'.kind)]}

\* update and delete of an id the collection does not hold throw and leave
\* the storage as it was.
MissingIdThrows ==
    (IsMemoryStep /\ res'.route \in {"update", "delete"} /\ res'.id \notin MemoryIds(res'.kind))
        => res'.outcome = "threw" /\ memory' = memory

\* C28: in MemoryStorage no two records, of one collection or of two, share
\* an id, and every id issued is below nextId; a create issues an id greater
\* than every id issued before; update and delete of an id that is not in
\* the collection throw and change nothing.
C28_MemoryIdsUniqueAndIncreasing ==
    /\ [](NoSharedId(memory) /\
          \A i \in DOMAIN AllMemoryIds(memory) : AllMemoryIds(memory)[i] < memory.nextId)
    /\ [][CreateIssuesFreshId /\ MissingIdThrows]_vars

\* A record was created after another was deleted, and an update of an id
\* that is not stored has just thrown.
C28_Witness ==
    /\ res.stack = "memory" /\ res.route = "update" /\ res.outcome = "threw"
    /\ res.id = 2
    /\ 2 \notin MemoryIds("business")
    /\ 7 \in MemoryIds("business")
    /\ memory.nextId = 8

\* C29: createBusiness, createReward and createSurvey store the active flag
\* the caller supplied, and true only when the caller supplied none.
C29_CreateStoresSuppliedActive ==
    (res.stack = "memory" /\ res.route = "create" /\ res.kind \in FlaggedKinds)
        => res.record.active = (IF "active" \in DOMAIN res.input THEN res.input.active ELSE TRUE)

\* What the code does keep: a flag left out or supplied as true is stored
\* as true.
CreateStoresActiveUnlessFalse ==
    (res.stack = "memory" /\ res.route = "create" /\ res.kind \in FlaggedKinds
        /\ ("active" \in DOMAIN res.input => res.input.active))
        => res.record.active

\* createBusiness was called with active false and stored true.
FalseFlagStoredAsTrue ==
    /\ res.stack = "memory" /\ res.route = "create" /\ res.kind = "business"
    /\ "active" \in DOMAIN res.input /\ ~res.input.active
    /\ res.record.active
    /\ res.record \in {memory.businesses[i] : i \in DOMAIN memory.businesses}
====
